---- MODULE Spec2Model ----
(***************************************************************************)
(* ferriby: the poll scheduler (src/ferriby/src/event.rs), the application *)
(* controller and the liveness classifier (src/ferriby/src/app.rs).        *)
(*                                                                         *)
(* Tasks are tokio tasks.  One poll of a task is one step.  A task that    *)
(* was aborted is dropped by the runtime at a later step (JoinHandle's     *)
(* abort only schedules the cancellation); a task that was never polled    *)
(* is dropped without running.                                             *)
(*                                                                         *)
(* Source kinds are those of app.rs (Git, GitHub, GitLab, Forgejo); the    *)
(* per-kind timer blocks of EventTask::run are the same for every kind     *)
(* (event.rs names the Forgejo-hosted kind Codeberg).                      *)
(***************************************************************************)
EXTENDS Integers, Sequences, FiniteSets, TLC

\* ---------------------------------------------------------------- bounds
\* Events the producer tasks send during a run of the application, all
\* tasks together (each navigation key restarts the scheduler, so a run has
\* at most MaxEvents + 1 task sets).
MaxEvents == 3
\* Events the producer tasks send, and restart() calls, of a client that
\* drives the scheduler alone.
MaxSchedEvents == 3
\* Time is counted in units of 1/UnitsPerHour hour.
UnitsPerHour == 2
\* Largest timestamp, in such units, the classifier is applied to.
MaxTime == 340
\* Local branches of a repository a fetch is applied to.
MaxBranches == 2
\* Timestamp matches in the body of a hosted service's answer.
MaxStamps == 2
\* Width in bits of the animation counter. usize has 64 bits (32 on some
\* targets), more than the integers of a check hold; the counter is given
\* this width and wraps at 2^UsizeBits as usize does at 2^64.
UsizeBits == 16

\* ------------------------------------------------------------- constants
GitIntervalSecs == 3
ChunkLen == 2
OwnerRepoParts == 2
GitLabParts == 3
PatIntervalSecs == 5
NoPatIntervalSecs == 60
BuzzingHours == 24
WeekDays == 7

None == << >>
Some(x) == << x >>

Kinds == {"Git", "GitHub", "GitLab", "Forgejo"}
Roles == {"key", "anim"} \cup Kinds
Gens == 1 .. (MaxSchedEvents + 1)

Src(k, p) == [kind |-> k, pat |-> p]

\* The source lists a run is started with (main passes a non-empty list).
SourceLists ==
    { << Src("Git", FALSE) >>,
      << Src("GitHub", TRUE), Src("Git", FALSE) >>,
      << Src("GitLab", FALSE), Src("Forgejo", TRUE), Src("GitLab", TRUE) >> }

\* Terminal events the input reader forwards.
Key(c, m, k) == [isKey |-> TRUE, code |-> c, ctrl |-> m, kind |-> k]
Resize == [isKey |-> FALSE, code |-> "Resize", ctrl |-> FALSE, kind |-> "Press"]
NoKey == [isKey |-> FALSE, code |-> "", ctrl |-> FALSE, kind |-> ""]
TermInputs ==
    { Key("q", FALSE, "Release"), Key("c", TRUE, "Press"),
      Key("c", FALSE, "Press"), Key("Down", FALSE, "Press"),
      Key("Down", FALSE, "Release"), Key("Up", FALSE, "Press"), Resize }

\* No task awaited; the repository and the answer of a run whose fetches
\* are taken by their results alone.
NoFetch == None
NoRepo == [open |-> TRUE, list |-> TRUE, branches |-> << >>]
NoHttp == [send |-> "ok", status |-> 200, read |-> "ok", utf8 |-> TRUE,
           stamps |-> << >>]

\* An environment without token variables; no configuration file read.
NoEnv == [ k \in {"GitHub", "GitLab", "Forgejo"} |-> "unset" ]
NoConfig == [parses |-> FALSE]

VARIABLES
    \* App (app.rs:94-107)
    running, happiness, sources, selected, animation,
    \* EventHandler (event.rs:42-55): the interval fields, the channel, and
    \* gen, the task set actor_task refers to
    intervals, queue, gen,
    \* the tokio tasks: actor[g] is the EventTask of set g, sub[g][r] its
    \* JoinSet's task of role r
    actor, sub,
    \* App::run's position, the event next() returned, the source being
    \* fetched, how run ended, and the fatal condition the run has met
    pc, cur, fetching, outcome, fatal,
    \* history: events sent and received per producer; budget, the events
    \* the producers may still send
    sent, recvd, ctlSent, ctlRecvd, budget,
    \* immediate[g][r]: the ticks task r of set g sent without having waited
    \* a period
    immediate,
    \* the clock, the classifier's input and result
    now, last, result,
    \* the events the terminal can deliver
    terminal,
    \* what a fetch task finds: the local repository, the hosted service's
    \* answer; and what the task awaited last ended with
    repo, http, fetched,
    \* the timestamp fields of a hosted answer and the instants parsed from
    \* them
    response, timestamps,
    \* main: the command line, the token variables of the environment, the
    \* configuration file, and what parse_args returned
    args, env, config, startup,
    \* handle_key_events called by itself: the selected index before the
    \* first call, and the navigation inputs handled since
    start, inputs

appVars == << running, happiness, sources, selected, animation >>
schedVars == << intervals, queue, gen, actor, sub >>
runVars == << pc, cur, fetching, outcome, fatal >>
histVars == << sent, recvd, ctlSent, ctlRecvd, budget, immediate >>
clsVars == << now, last, result, terminal >>
fetchVars == << repo, http, fetched, response, timestamps >>
mainVars == << args, env, config, startup >>
navVars == << start, inputs >>
vars == << appVars, schedVars, runVars, histVars, clsVars, fetchVars, mainVars, navVars >>

\* ----------------------------------------------------------- classifier
\* chrono::TimeDelta::hours
Hours(n) == n * UnitsPerHour

\* Variants of the classifier with one comparison changed.
from_last_activity_day_le(t, last_activity) ==
    IF last_activity # None
    THEN IF t < last_activity[1]
         THEN "panic"
         ELSE LET diff == t - last_activity[1]
              IN  IF diff <= Hours(BuzzingHours) THEN "Buzzing"
                  ELSE IF diff < Hours(BuzzingHours * WeekDays) THEN "Okayish"
                  ELSE "Sad"
    ELSE "Undecided"

from_last_activity_week_le(t, last_activity) ==
    IF last_activity # None
    THEN IF t < last_activity[1]
         THEN "panic"
         ELSE LET diff == t - last_activity[1]
              IN  IF diff < Hours(BuzzingHours) THEN "Buzzing"
                  ELSE IF diff <= Hours(BuzzingHours * WeekDays) THEN "Okayish"
                  ELSE "Sad"
    ELSE "Undecided"

from_last_activity_clamp(t, last_activity) ==
    IF last_activity # None
    THEN LET diff == t - last_activity[1]
         IN  IF diff < Hours(BuzzingHours) THEN "Buzzing"
             ELSE IF diff < Hours(BuzzingHours * WeekDays) THEN "Okayish"
             ELSE "Sad"
    ELSE "Undecided"

from_last_activity(t, last_activity) ==
    IF last_activity # None
    THEN IF t < last_activity[1]
         THEN "panic"
         ELSE LET diff == t - last_activity[1]
              IN  IF diff < Hours(BuzzingHours) THEN "Buzzing"
                  ELSE IF diff < Hours(BuzzingHours * WeekDays) THEN "Okayish"
                  ELSE "Sad"
    ELSE "Undecided"

\* ------------------------------------------------------------ App::new
FirstOfKind(srcs, k) ==
    LET idx == { i \in 1 .. Len(srcs) : srcs[i].kind = k }
    IN  IF idx = {} THEN None
        ELSE Some(srcs[CHOOSE i \in idx : \A j \in idx : i <= j])

IntervalSecs(srcs) ==
    [ k \in Kinds |->
        LET s == FirstOfKind(srcs, k)
        IN  IF s = None THEN None
            ELSE IF k = "Git" THEN Some(GitIntervalSecs)
            ELSE IF s[1].pat THEN Some(PatIntervalSecs)
            ELSE Some(NoPatIntervalSecs) ]

\* --------------------------------------------------------------- events
Event(ty, arg, key, g, r, n, d) ==
    [type |-> ty, arg |-> arg, key |-> key, from |-> << g, r >>, seq |-> n,
     delay |-> d]
NoEvent == Event("", "", NoKey, 0, "", 0, "")

TickEvent(r, g, n, d) ==
    IF r = "anim" THEN Event("AnimationTick", "", NoKey, g, r, n, d)
    ELSE Event("Tick", r, NoKey, g, r, n, d)

\* A channel that puts a sent event at its head.
SendFront(q, e) == << e >> \o q

\* mpsc::UnboundedSender::send: the event joins the channel's tail.
Send(q, e) == Append(q, e)

SubLive(g, r) == sub[g][r] \notin {"none", "gone", "panicked"}
ActorLive(g) == actor[g] \notin {"none", "gone"}


\* The clones of the sender: the handler's own, one per EventTask that has
\* not been dropped, one per task of a JoinSet.
SenderCount ==
    1 + Cardinality({ g \in Gens : ActorLive(g) })
      + Cardinality({ p \in Gens \X Roles : SubLive(p[1], p[2]) })

\* What UnboundedReceiver::recv does.
RecvOutcome ==
    IF queue # << >> THEN "event"
    ELSE IF SenderCount = 0 THEN "closed"
    ELSE "pending"

\* ------------------------------------------------------ EventHandler::new
SpawnedActors == [ g \in Gens |-> IF g = 1 THEN "spawned" ELSE "none" ]
NoSubs == [ g \in Gens |-> [ r \in Roles |-> "none" ] ]
NoCounts == [ g \in Gens |-> [ r \in Roles |-> 0 ] ]

\* App::new(sources) on the list main hands over.
Init ==
    /\ sources \in SourceLists
    /\ running = TRUE
    /\ happiness = "Undecided"
    /\ selected = 0
    /\ animation = 0
    /\ intervals = IntervalSecs(sources)
    /\ queue = << >>
    /\ gen = 1
    /\ actor = SpawnedActors
    /\ sub = NoSubs
    /\ pc = "loop"
    /\ cur = NoEvent
    /\ fetching = None
    /\ outcome = "running"
    /\ fatal = ""
    /\ sent = NoCounts
    /\ recvd = NoCounts
    /\ ctlSent = 0
    /\ ctlRecvd = 0
    /\ budget = MaxEvents
    /\ immediate = NoCounts
    /\ now = Hours(BuzzingHours * WeekDays)
    /\ last = None
    /\ result = ""
    /\ terminal = TermInputs
    /\ repo = NoRepo
    /\ http = NoHttp
    /\ fetched = NoFetch
    /\ response = << >>
    /\ timestamps = None
    /\ args = << >>
    /\ env = NoEnv
    /\ config = NoConfig
    /\ startup = None
    /\ start = 0
    /\ inputs = << >>

\* ----------------------------------------------------------- the tasks
\* A run that spawns a timer for every kind, configured or not.
SpawnSetEveryKind(g) == [ r \in Roles |-> "spawned" ]

\* A run that spawns no timer of a kind.
SpawnSetNoKinds(g) ==
    [ r \in Roles |-> IF r \in {"key", "anim"} THEN "spawned" ELSE "none" ]

\* EventTask::run up to join_all: the JoinSet of set g.
SpawnSet(g) ==
    [ r \in Roles |->
        IF r \in {"key", "anim"} THEN "spawned"
        ELSE IF intervals[r] # None THEN "spawned"
        ELSE "none" ]

ActorRun(g) ==
    /\ actor[g] = "spawned"
    /\ pc # "done"
    /\ actor' = [actor EXCEPT ![g] = "joined"]
    /\ sub' = [sub EXCEPT ![g] = SpawnSet(g)]
    /\ UNCHANGED << intervals, queue, gen, appVars, runVars, histVars, clsVars, fetchVars, mainVars, navVars >>

\* The runtime drops an aborted EventTask, and with it the JoinSet, which
\* aborts its tasks.
ActorDrop(g) ==
    /\ actor[g] = "aborted"
    /\ pc # "done"
    /\ actor' = [actor EXCEPT ![g] = "gone"]
    /\ sub' = [sub EXCEPT ![g] =
                 [ r \in Roles |-> IF SubLive(g, r) THEN "gone" ELSE sub[g][r] ]]
    /\ UNCHANGED << intervals, queue, gen, appVars, runVars, histVars, clsVars, fetchVars, mainVars, navVars >>

\* tick_thread's first poll: the send of line 166, then it awaits the
\* interval's first tick.
TimerStart(g, r) ==
    /\ r \in Roles \ {"key"}
    /\ sub[g][r] = "spawned"
    /\ pc # "done"
    /\ budget > 0
    /\ budget' = budget - 1
    /\ queue' = Send(queue, TickEvent(r, g, 1, "none"))
    /\ sent' = [sent EXCEPT ![g][r] = 1]
    /\ sub' = [sub EXCEPT ![g][r] = "first_tick"]
    /\ immediate' = [immediate EXCEPT ![g][r] = 1]
    /\ UNCHANGED << intervals, gen, actor, appVars, runVars, recvd, ctlSent,
                    ctlRecvd, clsVars, fetchVars, mainVars, navVars >>

\* tick.tick() completes (the first tick of a tokio interval at once, every
\* later one a period after the one before) and the loop sends again.
TimerTick(g, r) ==
    /\ r \in Roles \ {"key"}
    /\ sub[g][r] \in {"first_tick", "wait"}
    /\ pc # "done"
    /\ budget > 0
    /\ budget' = budget - 1
    /\ queue' = Send(queue, TickEvent(r, g, sent[g][r] + 1,
                        IF sub[g][r] = "first_tick" THEN "zero" ELSE "period"))
    /\ sent' = [sent EXCEPT ![g][r] = @ + 1]
    /\ sub' = [sub EXCEPT ![g][r] = "wait"]
    /\ immediate' = [immediate EXCEPT ![g][r] =
                       IF sub[g][r] = "first_tick" THEN @ + 1 ELSE @]
    /\ UNCHANGED << intervals, gen, actor, appVars, runVars, recvd, ctlSent,
                    ctlRecvd, clsVars, fetchVars, mainVars, navVars >>

\* key_thread: one terminal event read and forwarded.
KeyRead(g) ==
    /\ sub[g]["key"] \in {"spawned", "reading"}
    /\ pc # "done"
    /\ budget > 0
    /\ budget' = budget - 1
    /\ \E k \in terminal :
         queue' = Send(queue, Event("Crossterm", "", k, g, "key",
                                    sent[g]["key"] + 1, "none"))
    /\ sent' = [sent EXCEPT ![g]["key"] = @ + 1]
    /\ sub' = [sub EXCEPT ![g]["key"] = "reading"]
    /\ UNCHANGED << intervals, gen, actor, appVars, runVars, recvd, ctlSent,
                    ctlRecvd, immediate, clsVars, fetchVars, mainVars, navVars >>

\* ------------------------------------------------------- EventHandler
\* A restart that aborts and spawns nothing.
RestartNoSpawn ==
    [ g \in Gens |->
        IF g = gen
        THEN (IF actor[g] \in {"spawned", "joined"} THEN "aborted" ELSE actor[g])
        ELSE actor[g] ]

\* restart(): abort the actor task, spawn a new one with the same sender
\* and intervals.
RestartActors ==
    [ g \in Gens |->
        IF g = gen
        THEN (IF actor[g] \in {"spawned", "joined"} THEN "aborted" ELSE actor[g])
        ELSE IF g = gen + 1 THEN "spawned"
        ELSE actor[g] ]

\* A send(app_event) that overtakes the events already queued.
SendAppFront(q, ev) == SendFront(q, Event("App", ev, NoKey, 0, "ctl", ctlSent + 1, "none"))

\* send(app_event)
SendApp(q, ev) == Send(q, Event("App", ev, NoKey, 0, "ctl", ctlSent + 1, "none"))

\* --------------------------------------------------------------- App::run
Finish(how) ==
    /\ pc' = "done"
    /\ outcome' = how
    /\ fatal' = IF how = "ok" THEN fatal ELSE how
    /\ cur' = NoEvent
    /\ fetching' = None

\* A loop that does not test running.
RunLoopForever ==
    /\ pc = "loop"
    /\ IF selected < Len(sources)
       THEN pc' = "next" /\ UNCHANGED << cur, fetching, outcome, fatal >>
       ELSE Finish("index out of bounds")
    /\ UNCHANGED << appVars, schedVars, histVars, clsVars, fetchVars, mainVars, navVars >>

\* The loop's head: the running test, then the frame is drawn; the
\* renderer indexes sources[selected] (ui.rs:134).
RunLoop ==
    /\ pc = "loop"
    /\ IF ~running THEN Finish("ok")
       ELSE IF selected < Len(sources)
       THEN pc' = "next" /\ UNCHANGED << cur, fetching, outcome, fatal >>
       ELSE Finish("index out of bounds")
    /\ UNCHANGED << appVars, schedVars, histVars, clsVars, fetchVars, mainVars, navVars >>

Received(e) ==
    IF e.from[2] = "ctl"
    THEN /\ ctlRecvd' = e.seq
         /\ UNCHANGED recvd
    ELSE /\ recvd' = [recvd EXCEPT ![e.from[1]][e.from[2]] = e.seq]
         /\ UNCHANGED ctlRecvd

\* The event recv hands over: the channel's head.
Recv(q) == Head(q)
AfterRecv(q) == Tail(q)

\* events.next(): the head of the channel, or the error of a closed one.
EventsNext ==
    /\ pc = "next"
    /\ RecvOutcome # "pending"
    /\ IF RecvOutcome = "closed"
       THEN /\ Finish("Failed to receive event")
            /\ UNCHANGED << queue, recvd, ctlRecvd >>
       ELSE /\ cur' = Recv(queue)
            /\ queue' = AfterRecv(queue)
            /\ Received(Recv(queue))
            /\ pc' = "dispatch"
            /\ UNCHANGED << fetching, outcome, fatal >>
    /\ UNCHANGED << appVars, intervals, gen, actor, sub, sent, ctlSent, budget,
                    immediate, clsVars, fetchVars, mainVars, navVars >>

\* A tick that takes every source for one of its kind.
IsAnyKind(src, k) == TRUE

\* if let Source::K(source) = &self.sources[self.selected]
IsKind(src, k) == src.kind = k

\* A tick handler that spawns the fetch and does not await it.
KindTickNoAwait ==
    /\ pc = "dispatch"
    /\ cur.type = "Tick"
    /\ IF selected >= Len(sources) THEN Finish("index out of bounds")
       ELSE /\ pc' = "loop"
            /\ cur' = NoEvent
            /\ fetching' = IF IsKind(sources[selected + 1], cur.arg)
                           THEN Some(selected) ELSE fetching
            /\ UNCHANGED << outcome, fatal >>
    /\ UNCHANGED << appVars, schedVars, histVars, clsVars, fetchVars, mainVars, navVars >>

\* git_tick, github_tick, gitlab_tick, forgejo_tick: the fetch is spawned
\* when the selected source is of the tick's kind.
KindTick ==
    /\ pc = "dispatch"
    /\ cur.type = "Tick"
    /\ IF selected >= Len(sources) THEN Finish("index out of bounds")
       ELSE IF IsKind(sources[selected + 1], cur.arg)
       THEN /\ pc' = "fetch"
            /\ fetching' = Some(selected)
            /\ UNCHANGED << cur, outcome, fatal >>
       ELSE /\ pc' = "loop"
            /\ cur' = NoEvent
            /\ UNCHANGED << fetching, outcome, fatal >>
    /\ UNCHANGED << appVars, schedVars, histVars, clsVars, fetchVars, mainVars, navVars >>

\* What the awaited fetch task can give: a JoinError, None, a timestamp.
SampleDeltas == {0 - 1, 0, BuzzingHours, BuzzingHours * WeekDays}
FetchResults ==
    { [ok |-> FALSE, at |-> None], [ok |-> TRUE, at |-> None] }
    \cup { [ok |-> TRUE, at |-> Some(now - d)] : d \in SampleDeltas }

\* A handler that drops the task's failure.
handle_last_activity_keep_running(r) ==
    IF r.ok
    THEN [running |-> running, happiness |-> from_last_activity(now, r.at)]
    ELSE [running |-> running, happiness |-> happiness]

\* A handler that shows a failed task as Sad.
handle_last_activity_err_sad(r) ==
    IF r.ok
    THEN [running |-> running, happiness |-> from_last_activity(now, r.at)]
    ELSE [running |-> FALSE, happiness |-> "Sad"]

\* A handler that takes a fetch without a result for a failed one.
handle_last_activity_none_stops(r) ==
    IF r.ok /\ r.at # None
    THEN [running |-> running, happiness |-> from_last_activity(now, r.at)]
    ELSE [running |-> FALSE, happiness |-> happiness]

\* handle_last_activity: the fields of App it leaves behind.
handle_last_activity(r) ==
    IF r.ok
    THEN [running |-> running, happiness |-> from_last_activity(now, r.at)]
    ELSE [running |-> FALSE, happiness |-> happiness]

\* The tick handler after the await: handle_last_activity on the task's
\* result r, then back to the loop; the classifier's panic ends the run.
HandleResult(r) ==
    LET app == handle_last_activity(r)
    IN  IF app.happiness = "panic"
        THEN /\ Finish("commits from the future")
             /\ UNCHANGED << running, happiness >>
        ELSE /\ running' = app.running
             /\ happiness' = app.happiness
             /\ fatal' = IF r.ok THEN fatal ELSE "fetch task failed"
             /\ pc' = "loop"
             /\ cur' = NoEvent
             /\ fetching' = None
             /\ UNCHANGED outcome

\* The spawned fetch is awaited and its result handled.
FetchDone ==
    /\ pc = "fetch"
    /\ \E r \in FetchResults : HandleResult(r)
    /\ UNCHANGED << sources, selected, animation, schedVars, histVars, clsVars,
                    fetchVars, mainVars, navVars >>

\* A frame counter that skips a frame.
animation_tick_twice(a) == a + 2

\* An increment that leaves the counter's width.
animation_tick_unbounded(a) == a + 1

\* wrapping_add(1): the increment modulo 2 to the counter's width.
animation_tick(a) == (a + 1) % (2 ^ UsizeBits)

\* Event::AnimationTick
AnimationTick ==
    /\ pc = "dispatch"
    /\ cur.type = "AnimationTick"
    /\ animation' = animation_tick(animation)
    /\ pc' = "loop"
    /\ cur' = NoEvent
    /\ UNCHANGED << running, happiness, sources, selected, fetching, outcome, fatal,
                    schedVars, histVars, clsVars, fetchVars, mainVars, navVars >>

IsQuitKey(k) ==
    \/ k.code \in {"Esc", "q"}
    \/ k.code = "c" /\ k.ctrl

\* A navigation arm taken for a key event of any kind.
IsNavKeyAnyKind(k) ==
    /\ k.isKey
    /\ ~IsQuitKey(k)
    /\ k.code \in {"Down", "Up"}

\* The guards of the Down and Up arms, reached by a key event no quit arm
\* has matched.
IsNavKey(k) ==
    /\ k.isKey
    /\ ~IsQuitKey(k)
    /\ k.code \in {"Down", "Up"}
    /\ k.kind = "Press"

\* "next" without the wraparound.
NextIndexNoWrap(sel, len) == sel + 1

NextIndex(sel, len) == (sel + 1) % len

\* "previous" that stops at the first source.
PrevIndexSaturating(sel, len) == IF sel = 0 THEN 0 ELSE sel - 1

PrevIndex(sel, len) == IF sel = 0 THEN len - 1 ELSE sel - 1

\* A key handler whose navigation leaves Happiness as it is.
CrosstermKeepHappiness ==
    /\ pc = "dispatch"
    /\ cur.type = "Crossterm"
    /\ LET k == cur.key
           nav == IsNavKey(k)
       IN  IF k.isKey /\ IsQuitKey(k)
           THEN /\ queue' = SendApp(queue, "Quit")
                /\ ctlSent' = ctlSent + 1
                /\ pc' = "loop"
                /\ cur' = NoEvent
                /\ UNCHANGED << appVars, intervals, gen, actor, sub, fetching,
                                outcome, fatal >>
           ELSE IF nav /\ Len(sources) = 0
           THEN /\ happiness' = "Undecided"
                /\ Finish("division by zero")
                /\ UNCHANGED << running, sources, selected, animation,
                                schedVars, ctlSent >>
           ELSE IF nav
           THEN /\ happiness' = happiness
                /\ selected' = IF k.code = "Down"
                               THEN NextIndex(selected, Len(sources))
                               ELSE PrevIndex(selected, Len(sources))
                /\ actor' = RestartActors
                /\ gen' = gen + 1
                /\ pc' = "loop"
                /\ cur' = NoEvent
                /\ UNCHANGED << running, sources, animation, intervals, queue,
                                sub, fetching, outcome, fatal, ctlSent >>
           ELSE /\ pc' = "loop"
                /\ cur' = NoEvent
                /\ UNCHANGED << appVars, schedVars, fetching, outcome, fatal,
                                ctlSent >>
    /\ UNCHANGED << sent, recvd, ctlRecvd, budget, immediate, clsVars, fetchVars, mainVars, navVars >>

\* Event::Crossterm: handle_key_events for a key event, nothing otherwise.
Crossterm ==
    /\ pc = "dispatch"
    /\ cur.type = "Crossterm"
    /\ LET k == cur.key
           nav == IsNavKey(k)
       IN  IF k.isKey /\ IsQuitKey(k)
           THEN /\ queue' = SendApp(queue, "Quit")
                /\ ctlSent' = ctlSent + 1
                /\ pc' = "loop"
                /\ cur' = NoEvent
                /\ UNCHANGED << appVars, intervals, gen, actor, sub, fetching,
                                outcome, fatal >>
           ELSE IF nav /\ Len(sources) = 0
           THEN /\ happiness' = "Undecided"
                /\ Finish("division by zero")
                /\ UNCHANGED << running, sources, selected, animation,
                                schedVars, ctlSent >>
           ELSE IF nav
           THEN /\ happiness' = "Undecided"
                /\ selected' = IF k.code = "Down"
                               THEN NextIndex(selected, Len(sources))
                               ELSE PrevIndex(selected, Len(sources))
                /\ actor' = RestartActors
                /\ gen' = gen + 1
                /\ pc' = "loop"
                /\ cur' = NoEvent
                /\ UNCHANGED << running, sources, animation, intervals, queue,
                                sub, fetching, outcome, fatal, ctlSent >>
           ELSE /\ pc' = "loop"
                /\ cur' = NoEvent
                /\ UNCHANGED << appVars, schedVars, fetching, outcome, fatal,
                                ctlSent >>
    /\ UNCHANGED << sent, recvd, ctlRecvd, budget, immediate, clsVars, fetchVars, mainVars, navVars >>

\* A quit() that goes back to the first source.
AppEventFirstSource ==
    /\ pc = "dispatch"
    /\ cur.type = "App"
    /\ running' = FALSE
    /\ selected' = 0
    /\ pc' = "loop"
    /\ cur' = NoEvent
    /\ UNCHANGED << happiness, sources, animation, fetching, outcome, fatal,
                    schedVars, histVars, clsVars, fetchVars, mainVars, navVars >>

\* Event::App(AppEvent::Quit): quit()
AppEvent ==
    /\ pc = "dispatch"
    /\ cur.type = "App"
    /\ running' = FALSE
    /\ pc' = "loop"
    /\ cur' = NoEvent
    /\ UNCHANGED << happiness, sources, selected, animation, fetching, outcome, fatal,
                    schedVars, histVars, clsVars, fetchVars, mainVars, navVars >>

Next ==
    \/ \E g \in Gens : ActorRun(g)
    \/ \E g \in Gens : ActorDrop(g)
    \/ \E g \in Gens, r \in Roles : TimerStart(g, r)
    \/ \E g \in Gens, r \in Roles : TimerTick(g, r)
    \/ \E g \in Gens : KeyRead(g)
    \/ RunLoop
    \/ EventsNext
    \/ KindTick
    \/ FetchDone
    \/ AnimationTick
    \/ Crossterm
    \/ AppEvent

Spec == Init /\ [][Next]_vars

\* ------------------------------------------- the scheduler and a client
\* The interval arguments EventHandler::new is called with.
IntervalConfigs ==
    { [ k \in Kinds |-> None ],
      [ k \in Kinds |-> IF k = "Git" THEN Some(GitIntervalSecs) ELSE None ],
      [ k \in Kinds |-> IF k = "GitHub" THEN Some(PatIntervalSecs)
                        ELSE IF k = "Forgejo" THEN Some(NoPatIntervalSecs)
                        ELSE None ] }

\* EventHandler::new(intervals) held by a client that calls next(), send()
\* and restart() as it likes; pc = "dispatch" is the client between calls.
InitSched ==
    /\ sources = << >>
    /\ running = TRUE
    /\ happiness = "Undecided"
    /\ selected = 0
    /\ animation = 0
    /\ intervals \in IntervalConfigs
    /\ queue = << >>
    /\ gen = 1
    /\ actor = SpawnedActors
    /\ sub = NoSubs
    /\ pc = "dispatch"
    /\ cur = NoEvent
    /\ fetching = None
    /\ outcome = "running"
    /\ fatal = ""
    /\ sent = NoCounts
    /\ recvd = NoCounts
    /\ ctlSent = 0
    /\ ctlRecvd = 0
    /\ budget = MaxSchedEvents
    /\ immediate = NoCounts
    /\ now = 0
    /\ last = None
    /\ result = ""
    /\ terminal = { Key("Down", FALSE, "Press"), Resize }
    /\ repo = NoRepo
    /\ http = NoHttp
    /\ fetched = NoFetch
    /\ response = << >>
    /\ timestamps = None
    /\ args = << >>
    /\ env = NoEnv
    /\ config = NoConfig
    /\ startup = None
    /\ start = 0
    /\ inputs = << >>

\* The client calls next() and awaits it.
ClientNext ==
    /\ pc = "dispatch"
    /\ pc' = "next"
    /\ cur' = NoEvent
    /\ UNCHANGED << fetching, outcome, fatal, appVars, schedVars, histVars, clsVars, fetchVars, mainVars, navVars >>

\* A restart() that empties the channel.
ClientRestartDrain ==
    /\ pc = "dispatch"
    /\ budget > 0
    /\ budget' = budget - 1
    /\ actor' = RestartActors
    /\ gen' = gen + 1
    /\ queue' = << >>
    /\ UNCHANGED << intervals, sub, appVars, runVars, sent, recvd, ctlSent,
                    ctlRecvd, immediate, clsVars, fetchVars, mainVars, navVars >>

\* The client calls restart().
ClientRestart ==
    /\ pc = "dispatch"
    /\ budget > 0
    /\ budget' = budget - 1
    /\ actor' = RestartActors
    /\ gen' = gen + 1
    /\ UNCHANGED << intervals, queue, sub, appVars, runVars, sent, recvd, ctlSent,
                    ctlRecvd, immediate, clsVars, fetchVars, mainVars, navVars >>

\* The client calls send(AppEvent::Quit).
ClientSend ==
    /\ pc = "dispatch"
    /\ budget > 0
    /\ budget' = budget - 1
    /\ queue' = SendApp(queue, "Quit")
    /\ ctlSent' = ctlSent + 1
    /\ UNCHANGED << intervals, gen, actor, sub, appVars, runVars, sent, recvd,
                    ctlRecvd, immediate, clsVars, fetchVars, mainVars, navVars >>

NextSched ==
    \/ \E g \in Gens : ActorRun(g)
    \/ \E g \in Gens : ActorDrop(g)
    \/ \E g \in Gens, r \in Roles : TimerStart(g, r)
    \/ \E g \in Gens, r \in Roles : TimerTick(g, r)
    \/ \E g \in Gens : KeyRead(g)
    \/ EventsNext
    \/ ClientNext
    \/ ClientRestart
    \/ ClientSend

SpecSched == InitSched /\ [][NextSched]_vars

\* --------------------------------------------------- a producer that fails
\* A task of a JoinSet panics: tokio ends the task with a JoinError.
ProducerPanic(g, r) ==
    /\ SubLive(g, r)
    /\ pc # "done"
    /\ budget > 0
    /\ budget' = budget - 1
    /\ sub' = [sub EXCEPT ![g][r] = "panicked"]
    /\ UNCHANGED << intervals, queue, gen, actor, appVars, runVars, sent, recvd,
                    ctlSent, ctlRecvd, immediate, clsVars, fetchVars, mainVars, navVars >>

\* join_all meets the JoinError and panics: the EventTask ends and its
\* JoinSet is dropped, which aborts the tasks left.
ActorJoinPanic(g) ==
    /\ actor[g] = "joined"
    /\ \E r \in Roles : sub[g][r] = "panicked"
    /\ pc # "done"
    /\ actor' = [actor EXCEPT ![g] = "gone"]
    /\ sub' = [sub EXCEPT ![g] =
                 [ r \in Roles |-> IF SubLive(g, r) THEN "gone" ELSE sub[g][r] ]]
    /\ UNCHANGED << intervals, queue, gen, appVars, runVars, histVars, clsVars, fetchVars, mainVars, navVars >>

NextSchedFail ==
    \/ NextSched
    \/ \E g \in Gens, r \in Roles : ProducerPanic(g, r)
    \/ \E g \in Gens : ActorJoinPanic(g)

SpecSchedFail == InitSched /\ [][NextSchedFail]_vars

\* ------------------------------------------------- the classifier alone
Times == 0 .. MaxTime

InitClassify ==
    /\ sources = << >>
    /\ running = TRUE
    /\ happiness = "Undecided"
    /\ selected = 0
    /\ animation = 0
    /\ intervals = [ k \in Kinds |-> None ]
    /\ queue = << >>
    /\ gen = 1
    /\ actor = [ g \in Gens |-> "none" ]
    /\ sub = NoSubs
    /\ pc = "classify"
    /\ cur = NoEvent
    /\ fetching = None
    /\ outcome = "running"
    /\ fatal = ""
    /\ sent = NoCounts
    /\ recvd = NoCounts
    /\ ctlSent = 0
    /\ ctlRecvd = 0
    /\ budget = 0
    /\ immediate = NoCounts
    /\ now \in Times
    /\ last \in {None} \cup { Some(t) : t \in Times }
    /\ result = ""
    /\ terminal = {}
    /\ repo = NoRepo
    /\ http = NoHttp
    /\ fetched = NoFetch
    /\ response = << >>
    /\ timestamps = None
    /\ args = << >>
    /\ env = NoEnv
    /\ config = NoConfig
    /\ startup = None
    /\ start = 0
    /\ inputs = << >>

\* Happiness::from_last_activity(last) at the time now.
Classify ==
    /\ pc = "classify"
    /\ result = ""
    /\ result' = from_last_activity(now, last)
    /\ UNCHANGED << now, last, terminal, appVars, schedVars, runVars, histVars,
                    fetchVars, mainVars, navVars >>

NextClassify == Classify

SpecClassify == InitClassify /\ [][NextClassify]_vars
\* ---------------------------------------------------- the fetchers alone
\* What the awaited task hands to the tick handler: Ok(at) of a task that
\* returned, the JoinError of one that panicked.
TaskDone(at) == [ok |-> TRUE, at |-> at]
TaskPanic == [ok |-> FALSE, at |-> None]

RECURSIVE MaxOf(_)
\* Iterator::max of a non-empty sequence of times.
MaxOf(ts) ==
    IF Len(ts) = 1 THEN ts[1]
    ELSE LET m == MaxOf(Tail(ts))
         IN  IF ts[1] > m THEN ts[1] ELSE m

TimesOf(items) == [ i \in 1 .. Len(items) |-> items[i].time ]

\* git.rs get_last_event: the repository is opened and its local branches
\* listed (a panic on failure); an entry that is an Err, or whose name is
\* an Err or not UTF-8, is passed over; every name collected is resolved
\* to its tip commit (a panic on failure); the maximum of the tips' times.
get_last_event(rp) ==
    IF ~rp.open THEN TaskPanic
    ELSE IF ~rp.list THEN TaskPanic
    ELSE LET named == SelectSeq(rp.branches,
                        LAMBDA b : b.entry = "ok" /\ b.name = "utf8")
         IN  IF \E i \in 1 .. Len(named) :
                    \/ named[i].ref # "ok"
                    \/ named[i].target # "ok"
                    \/ named[i].commit # "ok"
                    \/ named[i].stamp # "ok"
             THEN TaskPanic
             ELSE IF named = << >> THEN TaskDone(None)
             ELSE TaskDone(Some(MaxOf(TimesOf(named))))

\* Response::error_for_status: a client or server error status.
IsErrorStatus(st) == 400 <= st /\ st <= 599

\* githoster.rs get_with_headers: None when the request fails or the status
\* is an error; the body otherwise (here the timestamp matches it holds);
\* a panic when the body cannot be read or is not UTF-8.
get_with_headers(h) ==
    IF h.send # "ok" THEN TaskDone(None)
    ELSE IF IsErrorStatus(h.status) THEN TaskDone(None)
    ELSE IF h.read # "ok" THEN TaskPanic
    ELSE IF ~h.utf8 THEN TaskPanic
    ELSE TaskDone(Some(h.stamps))

\* parse_timestamps and max: a match chrono cannot parse is a panic.
MaxTimestamp(stamps) ==
    IF \E i \in 1 .. Len(stamps) : stamps[i].fmt # "ok" THEN TaskPanic
    ELSE IF stamps = << >> THEN TaskDone(None)
    ELSE TaskDone(Some(MaxOf(TimesOf(stamps))))

\* GitLabSource and ForgejoSource get_last_activity.
HostedFetch(h) ==
    LET body == get_with_headers(h)
    IN  IF ~body.ok THEN TaskPanic
        ELSE IF body.at = None THEN TaskDone(None)
        ELSE MaxTimestamp(body.at[1])

\* GitHubSource::get_last_activity, which sends the request itself.
GitHubFetch(h) ==
    IF h.send # "ok" THEN TaskDone(None)
    ELSE IF IsErrorStatus(h.status) THEN TaskDone(None)
    ELSE IF h.read # "ok" THEN TaskPanic
    ELSE IF ~h.utf8 THEN TaskPanic
    ELSE MaxTimestamp(h.stamps)

\* The task tokio::spawn runs for the selected source.
FetchTask(src) ==
    IF src.kind = "Git" THEN get_last_event(repo)
    ELSE IF src.kind = "GitHub" THEN GitHubFetch(http)
    ELSE HostedFetch(http)

\* Two commit times, T1 < T2 <= now.
FetchTimes == { Hours(BuzzingHours * WeekDays) - Hours(BuzzingHours),
                Hours(BuzzingHours * WeekDays) - 1 }

\* A local branch as git2 presents it: the iterator's entry, its name, the
\* reference refs/heads/<name>, its target, the commit and its time.
Branch(e, n, r, t, c, s, at) ==
    [entry |-> e, name |-> n, ref |-> r, target |-> t, commit |-> c,
     stamp |-> s, time |-> at]
Branches ==
    { Branch("ok", "utf8", "ok", "ok", "ok", "ok", t) : t \in FetchTimes }
    \cup { Branch("err", "utf8", "ok", "ok", "ok", "ok", t) : t \in FetchTimes }
    \cup { Branch("ok", "err", "ok", "ok", "ok", "ok", t) : t \in FetchTimes }
    \cup { Branch("ok", "not_utf8", "ok", "ok", "ok", "ok", t) : t \in FetchTimes }
    \cup { Branch("ok", "utf8", "err", "ok", "ok", "ok", t) : t \in FetchTimes }
    \cup { Branch("ok", "utf8", "ok", "none", "ok", "ok", t) : t \in FetchTimes }
    \cup { Branch("ok", "utf8", "ok", "ok", "err", "ok", t) : t \in FetchTimes }
    \cup { Branch("ok", "utf8", "ok", "ok", "ok", "out_of_range", t) :
             t \in FetchTimes }

SeqsUpTo(S, n) == UNION { [ 1 .. k -> S ] : k \in 0 .. n }

Repos ==
    { [open |-> FALSE, list |-> TRUE, branches |-> << >>],
      [open |-> TRUE, list |-> FALSE, branches |-> << >>] }
    \cup { [open |-> TRUE, list |-> TRUE, branches |-> bs] :
             bs \in SeqsUpTo(Branches, MaxBranches) }

\* The answers of a hosted service: the request sent or not, the status,
\* the body read or not, UTF-8 or not, and the timestamp matches in it.
Stamps == { [fmt |-> f, time |-> t] : f \in {"ok", "bad"}, t \in FetchTimes }
Https ==
    { [send |-> sd, status |-> st, read |-> rd, utf8 |-> u, stamps |-> ms] :
        sd \in {"ok", "err"}, st \in {200, 304, 404, 503},
        rd \in {"ok", "err"}, u \in BOOLEAN,
        ms \in SeqsUpTo(Stamps, MaxStamps) }

\* A run at the await of a tick handler's fetch of its only source.
InitFetch ==
    /\ \E k \in Kinds :
         /\ sources = << Src(k, FALSE) >>
         /\ cur = TickEvent(k, 1, 1, "none")
         /\ repo \in (IF k = "Git" THEN Repos ELSE {NoRepo})
         /\ http \in (IF k = "Git" THEN {NoHttp} ELSE Https)
    /\ running = TRUE
    /\ happiness \in {"Undecided", "Sad"}
    /\ selected = 0
    /\ animation = 0
    /\ intervals = IntervalSecs(sources)
    /\ queue = << >>
    /\ gen = 1
    /\ actor = SpawnedActors
    /\ sub = NoSubs
    /\ pc = "fetch"
    /\ fetching = Some(0)
    /\ outcome = "running"
    /\ fatal = ""
    /\ sent = NoCounts
    /\ recvd = NoCounts
    /\ ctlSent = 0
    /\ ctlRecvd = 0
    /\ budget = 0
    /\ immediate = NoCounts
    /\ now = Hours(BuzzingHours * WeekDays)
    /\ last = None
    /\ result = ""
    /\ terminal = {}
    /\ fetched = NoFetch
    /\ response = << >>
    /\ timestamps = None
    /\ args = << >>
    /\ env = NoEnv
    /\ config = NoConfig
    /\ startup = None
    /\ start = 0
    /\ inputs = << >>

\* The fetch task runs to its end.
FetchJoin ==
    /\ pc = "fetch"
    /\ fetching # None
    /\ fetched' = Some(FetchTask(sources[fetching[1] + 1]))
    /\ pc' = "handle"
    /\ UNCHANGED << cur, fetching, outcome, fatal, repo, http, response,
                    timestamps, appVars, schedVars, histVars, clsVars,
                    mainVars, navVars >>

\* The handler goes on with the task's result.
FetchHandle ==
    /\ pc = "handle"
    /\ HandleResult(fetched[1])
    /\ UNCHANGED << sources, selected, animation, schedVars, histVars, clsVars,
                    fetchVars, mainVars, navVars >>

NextFetch ==
    \/ FetchJoin
    \/ FetchHandle
    \/ RunLoop

SpecFetch == InitFetch /\ [][NextFetch]_vars
\* ------------------------------------------------- the timestamp parser
\* A timestamp field as written in a Forgejo answer: the local date and
\* time, and either a trailing Z or an offset of whole hours.
Written(d, h, m, z, o) == [day |-> d, hour |-> h, min |-> m, z |-> z, off |-> o]
WrittenStamps ==
    { Written(1, h, 30, TRUE, 0) : h \in {0, 11, 12, 23} }
    \cup { Written(1, h, 30, FALSE, o) : h \in {0, 11, 12, 23}, o \in {0 - 2, 2} }

\* NaiveDateTime::and_utc().timestamp(), in minutes: the written date and
\* time read as UTC.
NaiveTimestamp(w) == (w.day * 24 + w.hour) * 60 + w.min

\* A parser that drops the offset.
parse_timestamps_naive(resp) ==
    [ i \in 1 .. Len(resp) |-> NaiveTimestamp(resp[i]) ]

\* ForgejoSource::parse_timestamps: a field with Z through NaiveDateTime,
\* a field with an offset through DateTime::parse_from_str with %z, whose
\* timestamp is the local time less the offset.
parse_timestamps(resp) ==
    [ i \in 1 .. Len(resp) |->
        IF resp[i].z THEN NaiveTimestamp(resp[i])
        ELSE NaiveTimestamp(resp[i]) - resp[i].off * 60 ]

\* timestamps.into_iter().max()
MaxInstant(ts) == IF ts = << >> THEN None ELSE Some(MaxOf(ts))

\* parse_timestamps applied to the body of an answer.
InitParse ==
    /\ response \in SeqsUpTo(WrittenStamps, MaxStamps)
    /\ timestamps = None
    /\ last = None
    /\ sources = << >>
    /\ running = TRUE
    /\ happiness = "Undecided"
    /\ selected = 0
    /\ animation = 0
    /\ intervals = [ k \in Kinds |-> None ]
    /\ queue = << >>
    /\ gen = 1
    /\ actor = [ g \in Gens |-> "none" ]
    /\ sub = NoSubs
    /\ pc = "parse"
    /\ cur = NoEvent
    /\ fetching = None
    /\ outcome = "running"
    /\ fatal = ""
    /\ sent = NoCounts
    /\ recvd = NoCounts
    /\ ctlSent = 0
    /\ ctlRecvd = 0
    /\ budget = 0
    /\ immediate = NoCounts
    /\ now = 0
    /\ result = ""
    /\ terminal = {}
    /\ repo = NoRepo
    /\ http = NoHttp
    /\ fetched = NoFetch
    /\ args = << >>
    /\ env = NoEnv
    /\ config = NoConfig
    /\ startup = None
    /\ start = 0
    /\ inputs = << >>

\* get_last_activity from the body on: the instants, then their maximum.
ParseBody ==
    /\ pc = "parse"
    /\ timestamps = None
    /\ timestamps' = Some(parse_timestamps(response))
    /\ last' = MaxInstant(parse_timestamps(response))
    /\ UNCHANGED << now, result, terminal, repo, http, fetched, response,
                    appVars, schedVars, runVars, histVars, mainVars, navVars >>

NextParse == ParseBody

SpecParse == InitParse /\ [][NextParse]_vars

\* ------------------------------------------------- App::new on any list
MaxSources == 2

\* A local source carries no token; a hosted one carries one or none.
AnySource ==
    { Src("Git", FALSE) } \cup { Src(k, p) : k \in Kinds \ {"Git"}, p \in BOOLEAN }

InitNew ==
    /\ sources \in SeqsUpTo(AnySource, MaxSources) \ { << >> }
    /\ intervals = [ k \in Kinds |-> None ]
    /\ actor = [ g \in Gens |-> "none" ]
    /\ pc = "new"
    /\ running = FALSE
    /\ happiness = "Undecided"
    /\ selected = 0
    /\ animation = 0
    /\ queue = << >>
    /\ gen = 1
    /\ sub = NoSubs
    /\ cur = NoEvent
    /\ fetching = None
    /\ outcome = "running"
    /\ fatal = ""
    /\ sent = NoCounts
    /\ recvd = NoCounts
    /\ ctlSent = 0
    /\ ctlRecvd = 0
    /\ budget = 0
    /\ immediate = NoCounts
    /\ now = 0
    /\ last = None
    /\ result = ""
    /\ terminal = {}
    /\ repo = NoRepo
    /\ http = NoHttp
    /\ fetched = NoFetch
    /\ response = << >>
    /\ timestamps = None
    /\ args = << >>
    /\ env = NoEnv
    /\ config = NoConfig
    /\ startup = None
    /\ start = 0
    /\ inputs = << >>

\* App::new(sources): the intervals, then EventHandler::new(intervals).
AppNew ==
    /\ pc = "new"
    /\ intervals' = IntervalSecs(sources)
    /\ actor' = SpawnedActors
    /\ running' = TRUE
    /\ happiness' = "Undecided"
    /\ selected' = 0
    /\ animation' = 0
    /\ pc' = "loop"
    /\ UNCHANGED << sources, queue, gen, sub, cur, fetching, outcome, fatal,
                    histVars, clsVars, fetchVars, mainVars, navVars >>

NextNew == AppNew

SpecNew == InitNew /\ [][NextNew]_vars

\* ================================================================ main.rs
\* Arguments after the program's name on a command line.
MaxArgs == 4
\* Entries of one array of a configuration file.
MaxEntries == 2

\* Strings are sequences of characters.
Prog == << "f" >>
FlagG == << "-", "g" >>
FlagGH == << "-", "g", "h" >>
FlagCB == << "-", "c", "b" >>
FlagGL == << "-", "g", "l" >>
FlagC == << "-", "c" >>
FlagX == << "-", "x" >>
Flags == { FlagG, FlagGH, FlagCB, FlagGL, FlagC, FlagX }
Values ==
    { << "p" >>,
      << "o", "/", "r" >>,
      << "h", "/", "i", "/", "n" >>,
      << "h", "/", "i", "/", "n", "/", "m" >> }

\* Result<Vec<Source>, String>, or the panic that ends the call.
Ok(v) == [tag |-> "Ok", val |-> v]
Err(m) == [tag |-> "Err", val |-> m]
Panic(m) == [tag |-> "Panic", val |-> m]

GitSource(path) == [kind |-> "Git", pat |-> FALSE, fields |-> << path >>]
\* A GitHub source whose fields have changed places.
GitHubSourceSwapped(owner, rp, pat) ==
    [kind |-> "GitHub", pat |-> pat, fields |-> << rp, owner >>]

GitHubSource(owner, rp, pat) ==
    [kind |-> "GitHub", pat |-> pat, fields |-> << owner, rp >>]
CodebergSource(owner, rp, pat) ==
    [kind |-> "Forgejo", pat |-> pat, fields |-> << owner, rp >>]
GitLabSource(hostname, project_id, project_name, pat) ==
    [kind |-> "GitLab", pat |-> pat,
     fields |-> << hostname, project_id, project_name >>]

\* str::splitn(n, "/"): at most n parts, the last one holding the rest.
RECURSIVE splitn(_, _)
splitn(n, s) ==
    LET at == { i \in 1 .. Len(s) : s[i] = "/" }
    IN  IF n = 0 THEN << >>
        ELSE IF n = 1 \/ at = {} THEN << s >>
        ELSE LET i == CHOOSE j \in at : \A k \in at : j <= k
             IN  << SubSeq(s, 1, i - 1) >>
                     \o splitn(n - 1, SubSeq(s, i + 1, Len(s)))

\* str::split("/"): one part more than the string has separators.
split(s) == splitn(Len(s) + 1, s)

\* A token is there when the variable is set to a non-empty string.
try_get_pat(e, k) == e[k] = "set"

parse_owner_repo(val) ==
    LET parts == split(val)
    IN  IF Len(parts) # OwnerRepoParts
        THEN Panic("invalid argument format, expected 'owner/repo'.")
        ELSE Ok(<< parts[1], parts[2] >>)

\* ------------------------------------------------- configured_sources
\* A value of the configuration: a string, or something that is none.
Str(s) == [isString |-> TRUE, s |-> s]
NonStr == [isString |-> FALSE, s |-> << >>]
Table(h, i, n, p) == [hostname |-> h, projectid |-> i, projectname |-> n, pat |-> p]

GitEntry(v) ==
    IF v.isString THEN Ok(GitSource(v.s)) ELSE Panic("expected a string")

parse_owner_repo_conf_value(v) ==
    IF v.isString THEN parse_owner_repo(v.s) ELSE Panic("expected a string")

GitHubEntry(v, pat) ==
    LET r == parse_owner_repo_conf_value(v)
    IN  IF r.tag = "Ok" THEN Ok(GitHubSource(r.val[1], r.val[2], pat)) ELSE r

CodebergEntry(v, pat) ==
    LET r == parse_owner_repo_conf_value(v)
    IN  IF r.tag = "Ok" THEN Ok(CodebergSource(r.val[1], r.val[2], pat)) ELSE r

GitLabEntry(t, pat) ==
    IF t.hostname = None THEN Panic("expected a hostname key")
    ELSE IF t.projectid = None THEN Panic("expected a projectid key")
    ELSE IF t.projectname = None THEN Panic("expected a projectname key")
    ELSE Ok(GitLabSource(t.hostname[1], t.projectid[1], t.projectname[1],
                         IF pat THEN TRUE ELSE t.pat # None))

\* for_each over one array: the sources join the list, in the array's
\* order, unless an entry panics.
Gather(acc, rs) ==
    LET bad == { i \in 1 .. Len(rs) : rs[i].tag # "Ok" }
    IN  IF acc.tag # "Ok" THEN acc
        ELSE IF bad # {} THEN rs[CHOOSE i \in bad : \A j \in bad : i <= j]
        ELSE Ok(acc.val \o [ i \in 1 .. Len(rs) |-> rs[i].val ])

\* get_array(key): the array, or nothing when the key is absent.
Entries(a) == IF a = None THEN << >> ELSE a[1]

SourcesOf(cfg, e) ==
    LET git == [ i \in 1 .. Len(Entries(cfg.git)) |-> GitEntry(Entries(cfg.git)[i]) ]
        gh == [ i \in 1 .. Len(Entries(cfg.github)) |->
                  GitHubEntry(Entries(cfg.github)[i], try_get_pat(e, "GitHub")) ]
        cb == [ i \in 1 .. Len(Entries(cfg.codeberg)) |->
                  CodebergEntry(Entries(cfg.codeberg)[i], try_get_pat(e, "Forgejo")) ]
        gl == [ i \in 1 .. Len(Entries(cfg.gitlab)) |->
                  GitLabEntry(Entries(cfg.gitlab)[i], try_get_pat(e, "GitLab")) ]
    IN  Gather(Gather(Gather(Gather(Ok(<< >>), git), gh), cb), gl)

\* A configured_sources that hands over an empty list.
configured_sources_any(cfg, e) ==
    IF ~cfg.parses THEN Err("failed to parse config file")
    ELSE SourcesOf(cfg, e)

configured_sources(cfg, e) ==
    IF ~cfg.parses THEN Err("failed to parse config file")
    ELSE LET all == SourcesOf(cfg, e)
         IN  IF all.tag = "Ok" /\ all.val = << >>
             THEN Err("no sources defined in config file")
             ELSE all

\* ----------------------------------------------------------- parse_args
\* A parse of one chunk that takes an unknown flag for a path.
parse_chunk_lenient(chunk, e) ==
    IF Len(chunk) # ChunkLen THEN Err("argument missing")
    ELSE IF chunk[1] = FlagGH
    THEN LET r == parse_owner_repo(chunk[2])
         IN  IF r.tag = "Ok"
             THEN Ok(GitHubSource(r.val[1], r.val[2], try_get_pat(e, "GitHub")))
             ELSE r
    ELSE IF chunk[1] = FlagGL
    THEN LET parts == splitn(GitLabParts, chunk[2])
         IN  IF Len(parts) # GitLabParts
             THEN Panic("invalid argument format, expected 'hostname/projectid/projectname'.")
             ELSE Ok(GitLabSource(parts[1], parts[2], parts[3],
                                  try_get_pat(e, "GitLab")))
    ELSE IF chunk[1] = FlagCB
    THEN LET r == parse_owner_repo(chunk[2])
         IN  IF r.tag = "Ok"
             THEN Ok(CodebergSource(r.val[1], r.val[2], try_get_pat(e, "Forgejo")))
             ELSE r
    ELSE IF chunk[1] = FlagC
    THEN Err("-c arg can't be combined with other args")
    ELSE Ok(GitSource(chunk[2]))

\* The body of the loop over the chunks of two arguments.
parse_chunk(chunk, e) ==
    IF Len(chunk) # ChunkLen THEN Err("argument missing")
    ELSE IF chunk[1] = FlagGH
    THEN LET r == parse_owner_repo(chunk[2])
         IN  IF r.tag = "Ok"
             THEN Ok(GitHubSource(r.val[1], r.val[2], try_get_pat(e, "GitHub")))
             ELSE r
    ELSE IF chunk[1] = FlagGL
    THEN LET parts == splitn(GitLabParts, chunk[2])
         IN  IF Len(parts) # GitLabParts
             THEN Panic("invalid argument format, expected 'hostname/projectid/projectname'.")
             ELSE Ok(GitLabSource(parts[1], parts[2], parts[3],
                                  try_get_pat(e, "GitLab")))
    ELSE IF chunk[1] = FlagCB
    THEN LET r == parse_owner_repo(chunk[2])
         IN  IF r.tag = "Ok"
             THEN Ok(CodebergSource(r.val[1], r.val[2], try_get_pat(e, "Forgejo")))
             ELSE r
    ELSE IF chunk[1] = FlagG
    THEN Ok(GitSource(chunk[2]))
    ELSE IF chunk[1] = FlagC
    THEN Err("-c arg can't be combined with other args")
    ELSE Err("unknown argument")

\* args[1..].chunks(2), one chunk after the other.
RECURSIVE parse_chunks(_, _, _)
parse_chunks(rest, e, acc) ==
    IF rest = << >> THEN Ok(acc)
    ELSE LET chunk == IF Len(rest) >= ChunkLen THEN SubSeq(rest, 1, ChunkLen) ELSE rest
             r == parse_chunk(chunk, e)
         IN  IF r.tag # "Ok" THEN r
             ELSE parse_chunks(SubSeq(rest, ChunkLen + 1, Len(rest)), e, Append(acc, r.val))

parse_args(a, e, cfg) ==
    IF Len(a) <= 1 THEN configured_sources(cfg, e)
    ELSE IF Len(a) = 3 /\ a[2] = FlagC THEN configured_sources(cfg, e)
    ELSE parse_chunks(Tail(a), e, << >>)

\* ----------------------------------------------------------------- main
\* The environment's three tokens.
Envs ==
    { NoEnv,
      [ k \in {"GitHub", "GitLab", "Forgejo"} |->
          IF k = "GitHub" THEN "set" ELSE IF k = "GitLab" THEN "empty" ELSE "set" ] }

GitValues == { Str(<< "p" >>), NonStr }
GitHubValues == { Str(<< "o", "/", "r" >>), Str(<< "p" >>) }
CodebergValues == { Str(<< "o", "/", "r" >>) }
GitLabTables ==
    { Table(Some(<< "h" >>), Some(<< "i" >>), Some(<< "n" >>), Some(<< "t" >>)),
      Table(Some(<< "h" >>), Some(<< "i" >>), Some(<< "n" >>), None),
      Table(None, Some(<< "i" >>), Some(<< "n" >>), None) }

\* An array of a configuration: absent, or of up to MaxEntries entries.
ArraysOf(S) == { None } \cup { Some(a) : a \in SeqsUpTo(S, MaxEntries) }

Configs ==
    { NoConfig }
    \cup [ parses : {TRUE}, git : ArraysOf(GitValues), github : ArraysOf(GitHubValues),
           codeberg : ArraysOf(CodebergValues), gitlab : ArraysOf(GitLabTables) ]

\* The command lines: the program's name, then up to MaxArgs arguments.
CommandLines ==
    { << Prog >> \o rest : rest \in SeqsUpTo(Flags \cup Values, MaxArgs) }

InitArgs ==
    /\ \/ args \in CommandLines /\ config = NoConfig
       \/ args \in { << Prog >>, << Prog, FlagC, << "p" >> >> } /\ config \in Configs
    /\ env \in Envs
    /\ startup = None
    /\ start = 0
    /\ inputs = << >>
    /\ pc = "main"
    /\ sources = << >>
    /\ intervals = [ k \in Kinds |-> None ]
    /\ actor = [ g \in Gens |-> "none" ]
    /\ running = FALSE
    /\ happiness = "Undecided"
    /\ selected = 0
    /\ animation = 0
    /\ queue = << >>
    /\ gen = 1
    /\ sub = NoSubs
    /\ cur = NoEvent
    /\ fetching = None
    /\ outcome = "running"
    /\ fatal = ""
    /\ sent = NoCounts
    /\ recvd = NoCounts
    /\ ctlSent = 0
    /\ ctlRecvd = 0
    /\ budget = 0
    /\ immediate = NoCounts
    /\ now = 0
    /\ last = None
    /\ result = ""
    /\ terminal = {}
    /\ repo = NoRepo
    /\ http = NoHttp
    /\ fetched = NoFetch
    /\ response = << >>
    /\ timestamps = None

\* main up to the match on parse_args' result: a list goes to App::new,
\* an error to usage(), which exits; a panic ends the process.
Main ==
    /\ pc = "main"
    /\ LET r == parse_args(args, env, config)
       IN  /\ startup' = Some(r)
           /\ sources' = IF r.tag = "Ok" THEN r.val ELSE sources
           /\ pc' = IF r.tag = "Ok" THEN "new"
                    ELSE IF r.tag = "Err" THEN "usage"
                    ELSE "panicked"
    /\ UNCHANGED << args, env, config, running, happiness, selected, animation,
                    schedVars, cur, fetching, outcome, fatal, histVars,
                    clsVars, fetchVars, navVars >>

NextArgs ==
    \/ Main
    \/ AppNew

SpecArgs == InitArgs /\ [][NextArgs]_vars

\* ============================================== the application, fairly
\* The runtime runs every spawned task up to its timers' first sends, and
\* drops what was aborted; the loop goes on whenever it can; an awaited
\* fetch ends. Nothing makes the terminal give a key or a period pass.
LiveFairness ==
    /\ \A g \in Gens : WF_vars(ActorRun(g)) /\ WF_vars(ActorDrop(g))
    /\ \A g \in Gens, r \in Roles : WF_vars(TimerStart(g, r))
    /\ WF_vars(RunLoop)
    /\ WF_vars(EventsNext)
    /\ WF_vars(KindTick)
    /\ WF_vars(FetchDone)
    /\ WF_vars(AnimationTick)
    /\ WF_vars(Crossterm)
    /\ WF_vars(AppEvent)

SpecLive == Init /\ [][Next]_vars /\ LiveFairness

\* ============================================ ticks and their fetches
\* The application with a terminal that gives nothing: ticks, and for each
\* tick of the selected source's kind the fetch, whose result stays in
\* `fetched` until the next one ends.
InitRetry ==
    /\ sources \in SourceLists
    /\ running = TRUE
    /\ happiness = "Undecided"
    /\ selected = 0
    /\ animation = 0
    /\ intervals = IntervalSecs(sources)
    /\ queue = << >>
    /\ gen = 1
    /\ actor = SpawnedActors
    /\ sub = NoSubs
    /\ pc = "loop"
    /\ cur = NoEvent
    /\ fetching = None
    /\ outcome = "running"
    /\ fatal = ""
    /\ sent = NoCounts
    /\ recvd = NoCounts
    /\ ctlSent = 0
    /\ ctlRecvd = 0
    /\ budget = MaxEvents
    /\ immediate = NoCounts
    /\ now = Hours(BuzzingHours * WeekDays)
    /\ last = None
    /\ result = ""
    /\ terminal = {}
    /\ repo = NoRepo
    /\ http = NoHttp
    /\ fetched = NoFetch
    /\ response = << >>
    /\ timestamps = None
    /\ args = << >>
    /\ env = NoEnv
    /\ config = NoConfig
    /\ startup = None
    /\ start = 0
    /\ inputs = << >>

\* The awaited task ends with one of the results a fetch can give.
FetchJoined ==
    /\ pc = "fetch"
    /\ fetching # None
    /\ \E r \in FetchResults : fetched' = Some(r)
    /\ pc' = "handle"
    /\ UNCHANGED << cur, fetching, outcome, fatal, repo, http, response,
                    timestamps, appVars, schedVars, histVars, clsVars,
                    mainVars, navVars >>

NextRetry ==
    \/ \E g \in Gens : ActorRun(g)
    \/ \E g \in Gens, r \in Roles : TimerStart(g, r)
    \/ \E g \in Gens, r \in Roles : TimerTick(g, r)
    \/ RunLoop
    \/ EventsNext
    \/ KindTick
    \/ FetchJoined
    \/ FetchHandle
    \/ AnimationTick

SpecRetry == InitRetry /\ [][NextRetry]_vars

\* ------------------------------------------------- navigation by itself
\* handle_key_events called on an App whose selected index is any index of
\* a non-empty source list, with pressed Down ("next") and Up ("previous")
\* keys, as many as the scheduler's generations allow.
InitNav ==
    /\ sources \in SeqsUpTo(AnySource, MaxSources) \ { << >> }
    /\ start \in 0 .. Len(sources) - 1
    /\ selected = start
    /\ inputs = << >>
    /\ running = TRUE
    /\ happiness = "Undecided"
    /\ animation = 0
    /\ intervals = IntervalSecs(sources)
    /\ queue = << >>
    /\ gen = 1
    /\ actor = SpawnedActors
    /\ sub = NoSubs
    /\ pc = "loop"
    /\ cur = NoEvent
    /\ fetching = None
    /\ outcome = "running"
    /\ fatal = ""
    /\ sent = NoCounts
    /\ recvd = NoCounts
    /\ ctlSent = 0
    /\ ctlRecvd = 0
    /\ budget = MaxEvents
    /\ immediate = NoCounts
    /\ now = Hours(BuzzingHours * WeekDays)
    /\ last = None
    /\ result = ""
    /\ terminal = {}
    /\ repo = NoRepo
    /\ http = NoHttp
    /\ fetched = NoFetch
    /\ response = << >>
    /\ timestamps = None
    /\ args = << >>
    /\ env = NoEnv
    /\ config = NoConfig
    /\ startup = None

\* The Down arm: Happiness reset, selected moved on, the scheduler
\* restarted.
HandleKeyDown ==
    /\ gen + 1 \in Gens
    /\ happiness' = "Undecided"
    /\ selected' = NextIndex(selected, Len(sources))
    /\ actor' = RestartActors
    /\ gen' = gen + 1
    /\ inputs' = Append(inputs, "next")
    /\ UNCHANGED << running, sources, animation, intervals, queue, sub, start,
                    runVars, histVars, clsVars, fetchVars, mainVars >>

\* The Up arm.
HandleKeyUp ==
    /\ gen + 1 \in Gens
    /\ happiness' = "Undecided"
    /\ selected' = PrevIndex(selected, Len(sources))
    /\ actor' = RestartActors
    /\ gen' = gen + 1
    /\ inputs' = Append(inputs, "previous")
    /\ UNCHANGED << running, sources, animation, intervals, queue, sub, start,
                    runVars, histVars, clsVars, fetchVars, mainVars >>

NextNav == HandleKeyDown \/ HandleKeyUp

SpecNav == InitNav /\ [][NextNav]_vars

\* ------------------------------------------- the animation counter's end
\* The controller of a run that has handled so many animation ticks that
\* its counter is at, or one below, the largest value of its width; and of
\* one that starts.
UsizeMax == 2 ^ UsizeBits - 1

InitAnim ==
    /\ sources \in SourceLists
    /\ running = TRUE
    /\ happiness = "Undecided"
    /\ selected = 0
    /\ animation \in {0, UsizeMax - 1, UsizeMax}
    /\ intervals = IntervalSecs(sources)
    /\ queue = << >>
    /\ gen = 1
    /\ actor = SpawnedActors
    /\ sub = NoSubs
    /\ pc = "loop"
    /\ cur = NoEvent
    /\ fetching = None
    /\ outcome = "running"
    /\ fatal = ""
    /\ sent = NoCounts
    /\ recvd = NoCounts
    /\ ctlSent = 0
    /\ ctlRecvd = 0
    /\ budget = MaxEvents
    /\ immediate = NoCounts
    /\ now = Hours(BuzzingHours * WeekDays)
    /\ last = None
    /\ result = ""
    /\ terminal = {}
    /\ repo = NoRepo
    /\ http = NoHttp
    /\ fetched = NoFetch
    /\ response = << >>
    /\ timestamps = None
    /\ args = << >>
    /\ env = NoEnv
    /\ config = NoConfig
    /\ startup = None
    /\ start = 0
    /\ inputs = << >>

SpecAnim == InitAnim /\ [][NextRetry]_vars

\* ================================================================ claims
Producers == (Gens \X Roles) \cup { << 0, "ctl" >> }
SentBy(p) == IF p[2] = "ctl" THEN ctlSent ELSE sent[p[1]][p[2]]
RecvdFrom(p) == IF p[2] = "ctl" THEN ctlRecvd ELSE recvd[p[1]][p[2]]
InChannel(p) == SelectSeq(queue, LAMBDA e : e.from = p)
\* The events the consumer has in hand or can still receive.
Stream == { queue[i] : i \in 1 .. Len(queue) } \cup { cur }

Spawned(g) == { r \in Roles : sub[g][r] # "none" }
Expected == {"key", "anim"} \cup { k \in Kinds : intervals[k] # None }
SetAlive(g) == actor[g] \in {"spawned", "joined"} \/ \E r \in Roles : SubLive(g, r)
AllProducersGone ==
    \A g \in Gens : ~ActorLive(g) /\ \A r \in Roles : ~SubLive(g, r)
\* Set g has nothing left to send before a full period has passed.
Settled(g) ==
    /\ actor[g] \notin {"none", "spawned"}
    /\ \A r \in Roles : sub[g][r] \notin {"spawned", "first_tick"}

\* C1: after two restart() calls, each restart's task set has sent, once
\* it has nothing immediate left to send, exactly one immediate Tick(kind)
\* for every kind with an interval.
C1_OneImmediateTickPerRestart ==
    \A g \in Gens \ {1}, k \in Kinds :
        (gen >= 3 /\ g <= gen /\ intervals[k] # None /\ Settled(g))
            => immediate[g][k] = 1

\* C2: exactly one task set is alive: the one restart() (or new()) spawned
\* last; the tasks of every older set can no longer send.
C2_ExactlyOneTaskSet ==
    /\ { g \in Gens : SetAlive(g) } = { gen }
    /\ \A g \in Gens : g # gen => \A r \in Roles : ~SubLive(g, r)

\* C3: when every producer task has disappeared and the channel is empty,
\* a pending next() fails with the channel's error.
C3_NextFailsWithoutProducers ==
    (AllProducersGone /\ queue = << >> /\ pc = "next")
        => RecvOutcome = "closed"

\* C4: for every producer, the events it sent and the consumer has not yet
\* received are in the channel, in the order sent, right after the last one
\* received: none lost, duplicated or reordered.
C4_PerProducerFifo ==
    \A p \in Producers :
        LET f == InChannel(p)
        IN  /\ Len(f) = SentBy(p) - RecvdFrom(p)
            /\ \A i \in 1 .. Len(f) : f[i].seq = RecvdFrom(p) + i

C4_Witness ==
    /\ recvd[1]["anim"] = 2
    /\ ctlRecvd = 1

\* C5: a task set that has run consists of the input reader, the animation
\* timer and one timer per kind with an interval; a set that has not run
\* has no task; no Tick of a kind without interval is ever sent.
C5_TaskSetComposition ==
    /\ \A g \in Gens :
        /\ actor[g] \in {"none", "spawned"} => Spawned(g) = {}
        /\ actor[g] = "joined" => Spawned(g) = Expected
        /\ Spawned(g) \in { {}, Expected }
        /\ \A k \in Kinds : intervals[k] = None => sent[g][k] = 0
    /\ \A e \in Stream : e.type = "Tick" => intervals[e.arg] # None

C5_Witness ==
    /\ gen = 2
    /\ actor[2] = "joined"
    /\ cur.type = "Tick"
    /\ cur.from[1] = 2
    /\ \E k \in Kinds : intervals[k] = None

\* C6: a timer task's first tick is sent without waiting, and every later
\* tick a full period after the one before.
C6_TicksOnePeriodApart ==
    \A e \in Stream :
        e.type = "Tick" =>
            IF e.seq = 1 THEN e.delay = "none" ELSE e.delay = "period"

\* C7: for a last activity d >= 0 before now the classifier gives Buzzing
\* iff d < 24h, Okayish iff 24h <= d < 168h, Sad iff d >= 168h; for no
\* last activity it gives Undecided.
C7_ClassifierBands ==
    result # "" =>
        IF last = None THEN result = "Undecided"
        ELSE LET d == now - last[1]
             IN  d >= 0 =>
                    /\ result = "Buzzing" <=> d < 24 * UnitsPerHour
                    /\ result = "Okayish" <=>
                         (24 * UnitsPerHour <= d /\ d < 168 * UnitsPerHour)
                    /\ result = "Sad" <=> d >= 168 * UnitsPerHour

C7_Witness ==
    /\ result = "Okayish"
    /\ last # None
    /\ now - last[1] = 24 * UnitsPerHour + 1

\* C8 as stated: a delta of exactly 24h is Buzzing and a delta of exactly
\* 168h is Okayish.
C8_BoundaryInLowerBand ==
    (result # "" /\ last # None) =>
        /\ now - last[1] = 24 * UnitsPerHour => result = "Buzzing"
        /\ now - last[1] = 168 * UnitsPerHour => result = "Okayish"

\* C8 amended: a delta of exactly 24h is Okayish and a delta of exactly
\* 168h is Sad.
C8_BoundaryInUpperBand ==
    (result # "" /\ last # None) =>
        /\ now - last[1] = 24 * UnitsPerHour => result = "Okayish"
        /\ now - last[1] = 168 * UnitsPerHour => result = "Sad"

C8_Witness ==
    /\ result = "Sad"
    /\ last # None
    /\ now - last[1] = 168 * UnitsPerHour

\* C9: the classifier fails exactly when the last activity is after now;
\* a last activity equal to now gives Buzzing.
C9_FailsIffFromTheFuture ==
    result # "" =>
        /\ result = "panic" <=> (last # None /\ last[1] > now)
        /\ (last # None /\ last[1] = now) => result = "Buzzing"

C9_Witness ==
    /\ result = "panic"
    /\ last # None
    /\ last[1] = now + 1

\* C10: the selected index is valid in every state of a run, and no step
\* of the run indexes sources out of bounds.
C10_SelectedValid ==
    /\ 0 <= selected
    /\ selected < Len(sources)
    /\ outcome # "index out of bounds"

C10_Witness ==
    /\ Len(sources) = 3
    /\ gen = 2
    /\ selected = 2
    /\ pc = "fetch"

\* The step in which App::run handles the event next() returned.
Handles == pc = "dispatch" /\ pc' # "dispatch"
NavKey(code) ==
    /\ cur.type = "Crossterm"
    /\ cur.key.isKey
    /\ cur.key.code = code
    /\ cur.key.kind = "Press"

\* C11: handling Down sets selected to (selected + 1) mod len, which is 0
\* at index len - 1; handling Up sets it to selected - 1, and to len - 1 at
\* index 0.
C11_NavigationWraps ==
    [][ /\ (Handles /\ NavKey("Down")) =>
            /\ selected' = (selected + 1) % Len(sources)
            /\ selected = Len(sources) - 1 => selected' = 0
        /\ (Handles /\ NavKey("Up")) =>
            /\ selected > 0 => selected' = selected - 1
            /\ selected = 0 => selected' = Len(sources) - 1 ]_vars

\* Up at index 0 of three sources has been handled.
C11_Witness ==
    /\ Len(sources) = 3
    /\ gen = 2
    /\ selected = 2
    /\ pc = "loop"
    /\ happiness = "Undecided"

\* C12: the step that handles a navigation input leaves Happiness
\* Undecided and is one restart() of the scheduler (the current task set
\* aborted, one new set spawned, no other set touched), on a list of a
\* single source too.
C12_NavigationResetsAndRestarts ==
    [][ (Handles /\ (NavKey("Down") \/ NavKey("Up"))) =>
            /\ happiness' = "Undecided"
            /\ gen' = gen + 1
            /\ actor'[gen + 1] = "spawned"
            /\ actor[gen] \in {"spawned", "joined"} => actor'[gen] = "aborted"
            /\ \A g \in Gens \ {gen, gen + 1} : actor'[g] = actor[g] ]_vars

\* A navigation input handled on a single source, after a fetch.
C12_Witness ==
    /\ Len(sources) = 1
    /\ gen = 2
    /\ selected = 0
    /\ happiness = "Undecided"
    /\ recvd[1]["Git"] >= 1
    /\ recvd[1]["key"] = 1
    /\ pc = "loop"

\* C13: the step that handles a tick of kind K starts a fetch iff the
\* selected source is of kind K, and then the fetch is of the selected
\* source; otherwise no fetch starts; either way the step leaves Happiness,
\* selected, running and the animation counter as they were.
C13_TickFetchesSelectedOfKind ==
    [][ (Handles /\ cur.type = "Tick") =>
            /\ pc' = "fetch" <=> sources[selected + 1].kind = cur.arg
            /\ pc' = "fetch" => fetching' = Some(selected)
            /\ pc' # "fetch" => (pc' = "loop" /\ fetching' = None)
            /\ UNCHANGED << happiness, selected, running, animation, sources >>
      ]_vars

\* A Git tick starts the fetch of the second source, selected by a
\* navigation, while the first source is of another kind.
C13_Witness ==
    /\ Len(sources) = 2
    /\ selected = 1
    /\ pc = "fetch"
    /\ fetching = Some(1)
    /\ cur.arg = "Git"
    /\ sources[1].kind = "GitHub"

\* C14: the step that handles an animation tick adds one to the animation
\* counter and leaves Happiness, selected, sources and running as they
\* were; it starts no fetch and restarts no task set.
C14_AnimationTickOnlyCounts ==
    [][ (Handles /\ cur.type = "AnimationTick") =>
            /\ animation' = animation + 1
            /\ UNCHANGED << happiness, selected, sources, running >>
            /\ pc' = "loop"
            /\ UNCHANGED << fetching, gen, actor, sub, queue >> ]_vars

\* Two animation ticks handled after a fetch set Happiness.
C14_Witness ==
    /\ animation = 2
    /\ happiness = "Buzzing"
    /\ pc = "loop"

\* C15: once the controller has handled a quit input (it has sent Quit) or
\* a Quit control event (running is false), it handles no tick and no
\* navigation input and completes no fetch.
C15_NothingHandledAfterQuit ==
    [][ (ctlSent > 0 \/ ~running) =>
            /\ ~(Handles /\ cur.type = "Tick")
            /\ ~(Handles /\ (NavKey("Down") \/ NavKey("Up")))
            /\ ~(pc = "fetch" /\ pc' # "fetch") ]_vars

\* C16: the step that handles a failed fetch task sets running to false
\* and leaves Happiness as it was; from then on the controller takes no
\* event from the channel and handles none, and Happiness stays.
C16_FailedFetchStopsLoop ==
    [][ /\ (fatal = "" /\ fatal' = "fetch task failed") =>
              (~running' /\ happiness' = happiness /\ pc' = "loop")
        /\ fatal = "fetch task failed" =>
              /\ ~running
              /\ pc \in {"loop", "done"} /\ pc' \in {"loop", "done"}
              /\ UNCHANGED << happiness, selected, animation, cur >> ]_vars

\* A fetch task failed after an earlier fetch had set Happiness; the run
\* has ended with events left in the channel.
C16_Witness ==
    /\ fatal = "fetch task failed"
    /\ happiness = "Buzzing"
    /\ pc = "done"
    /\ queue # << >>

\* C17: a run that has met a fatal condition does not end with the success
\* result: it ends with an error that carries the condition's message.
C17_FatalEndsWithError ==
    (pc = "done" /\ fatal # "") => (outcome # "ok" /\ outcome = fatal)

\* The hosted-fetch failures C18 lists: the request fails (transport error,
\* unreachable host), the status is an error, reading the response fails,
\* the body holds no timestamp match.
HostedFailure(h) ==
    \/ h.send # "ok"
    \/ IsErrorStatus(h.status)
    \/ h.read # "ok"
    \/ (h.utf8 /\ h.stamps = << >>)
Handled == pc \in {"loop", "next", "done"}

\* C18: when the fetch of a hosted source has met one of these failures
\* and the controller has handled its result, the fetcher has returned
\* None, Happiness is Undecided and running is still true.
C18_HostedFailureIsSoft ==
    (sources[1].kind # "Git" /\ Handled /\ HostedFailure(http)) =>
        /\ fetched = Some(TaskDone(None))
        /\ happiness = "Undecided"
        /\ running

GitFetched == sources[1].kind = "Git" /\ pc # "fetch" /\ fetched # None
\* A repository that opens and lists, every branch of which has a readable
\* entry and a tip commit with a time; a name need not be UTF-8.
Readable(rp) ==
    /\ rp.open
    /\ rp.list
    /\ \A i \in 1 .. Len(rp.branches) :
          LET b == rp.branches[i]
          IN  /\ b.entry = "ok" /\ b.name \in {"utf8", "not_utf8"}
              /\ b.ref = "ok" /\ b.target = "ok" /\ b.commit = "ok"
              /\ b.stamp = "ok"

\* C19: on such a repository the local fetcher returns None exactly when
\* there is no local branch, and otherwise the greatest tip time of all
\* its local branches.
C19_MaxOverAllBranches ==
    (GitFetched /\ Readable(repo)) =>
        /\ fetched[1].ok
        /\ fetched[1].at = None <=> repo.branches = << >>
        /\ fetched[1].at # None =>
             /\ \E i \in 1 .. Len(repo.branches) :
                    repo.branches[i].time = fetched[1].at[1]
             /\ \A i \in 1 .. Len(repo.branches) :
                    repo.branches[i].time <= fetched[1].at[1]

\* The failures C20 lists, as they occur in a fetch: the repository does
\* not open, the branches cannot be listed, a branch entry or its name is
\* an error, the target of a branch being resolved cannot be resolved.
RepoFailure(rp) ==
    \/ ~rp.open
    \/ ~rp.list
    \/ \E i \in 1 .. Len(rp.branches) :
          LET b == rp.branches[i]
          IN  \/ b.entry = "err"
              \/ b.name = "err"
              \/ /\ b.entry = "ok" /\ b.name = "utf8"
                 /\ (b.ref # "ok" \/ b.target # "ok" \/ b.commit # "ok")

\* C20: a local fetch that meets one of these failures ends as a failed
\* task, never with None and never with a time.
C20_RepoFailureIsFatal ==
    (GitFetched /\ RepoFailure(repo)) => fetched[1] = TaskPanic

\* The instant a written field stands for: its local time less its offset,
\* a trailing Z being offset 0.
Instant(w) == w.day * 1440 + w.hour * 60 + w.min - (IF w.z THEN 0 ELSE w.off * 60)

\* C21: parsing gives one instant per timestamp field, in the order of the
\* fields, each the written local time less the written offset; the
\* fetcher's result is the latest of them, and None without a field.
C21_InstantsAndTheirMaximum ==
    timestamps # None =>
        /\ Len(timestamps[1]) = Len(response)
        /\ \A i \in 1 .. Len(response) : timestamps[1][i] = Instant(response[i])
        /\ last = None <=> response = << >>
        /\ last # None =>
             /\ \E i \in 1 .. Len(response) : last[1] = Instant(response[i])
             /\ \A i \in 1 .. Len(response) : Instant(response[i]) <= last[1]

\* 12:30+02:00 and 11:30Z: the later text is the earlier instant.
C21_Witness ==
    /\ response = << Written(1, 12, 30, FALSE, 2), Written(1, 11, 30, TRUE, 0) >>
    /\ timestamps = Some(<< 2070, 2130 >>)
    /\ last = Some(2130)

\* C22: while a fetch is in flight the controller is in the handler of the
\* tick that started it: it takes no event from the channel, whatever the
\* producers add to it, and starts no other fetch, until the fetch ends.
C22_OneEventAtATime ==
    [][ fetching # None =>
            /\ pc = "fetch"
            /\ recvd' = recvd /\ ctlRecvd' = ctlRecvd
            /\ pc' = "fetch" => (cur' = cur /\ fetching' = fetching)
            /\ pc' # "fetch" => fetching' = None ]_vars

\* A fetch in flight while Quit and another event wait in the channel.
C22_Witness ==
    /\ pc = "fetch"
    /\ ctlSent > ctlRecvd
    /\ Len(queue) >= 2

\* C23: Happiness is Undecided at the start and after every handled
\* navigation input; it becomes Buzzing, Okayish or Sad only in the step
\* that ends the fetch of a tick's handler with a result that is not a
\* failure, never in a step that handles a key, an animation tick or Quit
\* or that restarts the scheduler.
C23_DecidedOnlyByFetch ==
    /\ happiness = "Undecided"
    /\ [][ /\ (Handles /\ (NavKey("Down") \/ NavKey("Up"))) =>
                happiness' = "Undecided"
           /\ selected' # selected => happiness' = "Undecided"
           /\ (happiness' # happiness /\ happiness' # "Undecided") =>
                /\ pc = "fetch" /\ pc' = "loop"
                /\ cur.type = "Tick"
                /\ fetching = Some(selected)
                /\ running' = running /\ fatal' = fatal
                /\ gen' = gen /\ selected' = selected ]_vars

\* Happiness decided by a fetch, handled after a navigation had reset it.
C23_Witness ==
    /\ happiness = "Okayish"
    /\ gen = 2
    /\ recvd[2]["Git"] >= 1
    /\ pc = "loop"

\* C24: the intervals never change; a restart() leaves the channel as it
\* is, with every queued event in its place, and the task set it spawns
\* is made of the timers of the same intervals.
C24_RestartKeepsConfigAndChannel ==
    /\ [](\A g \in Gens : (g >= 2 /\ actor[g] = "joined") => Spawned(g) = Expected)
    /\ [][ /\ intervals' = intervals
           /\ gen' # gen =>
                /\ queue' = queue
                /\ sent' = sent /\ recvd' = recvd
                /\ ctlSent' = ctlSent /\ ctlRecvd' = ctlRecvd ]_vars

\* After a restart the channel holds two events and the new set has run.
C24_Witness ==
    /\ gen = 2
    /\ actor[2] = "joined"
    /\ Len(queue) = 2
    /\ queue[1].from[1] = 1
    /\ \E k \in Kinds : intervals[k] # None

\* C25: send(app_event) puts the event on the channel the timers and the
\* key reader write to, behind every event already queued, whatever the
\* channel holds; next() returns it only when it has become the head, and
\* the application events come out in the order they were sent.
C25_SendQueuesBehind ==
    [][ /\ ctlSent' = ctlSent + 1 =>
             /\ Len(queue') = Len(queue) + 1
             /\ SubSeq(queue', 1, Len(queue)) = queue
             /\ queue'[Len(queue')].type = "App"
             /\ queue'[Len(queue')].seq = ctlSent'
        /\ ctlRecvd' = ctlRecvd + 1 =>
             /\ queue # << >>
             /\ Head(queue).type = "App"
             /\ Head(queue).seq = ctlRecvd'
             /\ queue' = Tail(queue)
             /\ cur' = Head(queue) ]_vars

\* An application event sent behind a queued timer event has been returned.
C25_Witness ==
    /\ pc = "dispatch"
    /\ cur.type = "App"
    /\ ctlRecvd = 1
    /\ \E g \in Gens, r \in Roles : recvd[g][r] >= 1

\* C26: the intervals App::new builds enable a kind exactly when the list
\* has a source of it; the local kind polls every 3 s, a hosted kind every
\* 5 s when its sources carry a token and every 60 s otherwise; once built
\* the intervals stay as they are.
C26_CadenceByCredentials ==
    [][ /\ (pc = "new" /\ pc' # "new") =>
             \A k \in Kinds :
                LET of == { i \in 1 .. Len(sources) : sources[i].kind = k }
                IN  /\ (intervals'[k] # None) <=> (of # {})
                    /\ (of # {} /\ k = "Git") =>
                          intervals'[k] = Some(GitIntervalSecs)
                    /\ (of # {} /\ k # "Git") =>
                          intervals'[k] =
                             IF \A i \in of : sources[i].pat
                             THEN Some(PatIntervalSecs)
                             ELSE Some(NoPatIntervalSecs)
        /\ pc # "new" => intervals' = intervals ]_vars

\* The arguments after the program's name; flags stand at the odd places.
Rest == Tail(args)
FlagPlaces == { i \in 1 .. Len(Rest) : i % 2 = 1 }
ConfigLine == Len(args) <= 1 \/ (Len(args) = 3 /\ args[2] = FlagC)
SourceFlags == { FlagG, FlagGH, FlagCB, FlagGL }
\* A flag without a value, an unknown flag, or -c among other arguments.
BadFlagAt(i) ==
    \/ i = Len(Rest)
    \/ Rest[i] \notin SourceFlags \cup { FlagC }
    \/ Rest[i] = FlagC
BadLine == ~ConfigLine /\ \E i \in FlagPlaces : BadFlagAt(i)
FirstBadFlag == CHOOSE i \in FlagPlaces : BadFlagAt(i) /\ \A j \in FlagPlaces : BadFlagAt(j) => i <= j
Slashes(s) == Cardinality({ i \in 1 .. Len(s) : s[i] = "/" })
\* The value does not have the parts its flag asks for.
MalformedAt(i) ==
    \/ Rest[i] \in { FlagGH, FlagCB } /\ Slashes(Rest[i + 1]) # 1
    \/ Rest[i] = FlagGL /\ Slashes(Rest[i + 1]) < 2
NotStarted == sources = << >> /\ \A g \in Gens : actor[g] = "none"

\* C28 as stated: whenever a flag has no value, is unknown, or is -c among
\* other arguments, parse_args returns an error and the scheduler is never
\* started.
C28_BadFlagIsAnError ==
    (pc # "main" /\ BadLine) =>
        /\ startup[1].tag = "Err"
        /\ pc = "usage"
        /\ NotStarted

\* C28, amended: in these cases parse_args returns no source list and the
\* scheduler is never started; it returns an error unless the value of a
\* hosted flag before the first such flag lacks its parts, and then it
\* panics.
C28_BadFlagGivesNoSources ==
    (pc # "main" /\ BadLine) =>
        /\ startup[1].tag =
              IF \E j \in FlagPlaces : j < FirstBadFlag /\ MalformedAt(j)
              THEN "Panic" ELSE "Err"
        /\ pc = IF startup[1].tag = "Err" THEN "usage" ELSE "panicked"
        /\ NotStarted

\* A known pair followed by an unknown flag has ended in usage().
C28_Witness ==
    /\ args = << Prog, FlagG, << "p" >>, FlagX, << "p" >> >>
    /\ startup = Some(Err("unknown argument"))
    /\ pc = "usage"

RECURSIVE Join(_)
Join(parts) ==
    IF Len(parts) = 0 THEN << >>
    ELSE IF Len(parts) = 1 THEN parts[1]
    ELSE parts[1] \o << "/" >> \o Join(Tail(parts))
KindOfFlag(f) ==
    IF f = FlagG THEN "Git" ELSE IF f = FlagGH THEN "GitHub"
    ELSE IF f = FlagGL THEN "GitLab" ELSE "Forgejo"
FieldsOfFlag(f) == IF f = FlagG THEN 1 ELSE IF f = FlagGL THEN 3 ELSE 2
ValidLine ==
    /\ ~ConfigLine
    /\ Len(Rest) >= 2
    /\ Len(Rest) % 2 = 0
    /\ \A i \in FlagPlaces : Rest[i] \in SourceFlags /\ ~MalformedAt(i)

\* C29: a command line of valid pairs gives one source per pair, in the
\* order of the pairs, of the flag's kind, whose fields are the parts of
\* the value: joined by "/" they give the value back, and no field but a
\* GitLab project's name holds a "/".
C29_OneSourcePerPair ==
    (pc # "main" /\ ValidLine) =>
        /\ startup[1].tag = "Ok"
        /\ Len(startup[1].val) * 2 = Len(Rest)
        /\ \A n \in 1 .. Len(startup[1].val) :
              LET s == startup[1].val[n]
                  f == Rest[2 * n - 1]
              IN  /\ s.kind = KindOfFlag(f)
                  /\ Len(s.fields) = FieldsOfFlag(f)
                  /\ f # FlagG => Join(s.fields) = Rest[2 * n]
                  /\ f = FlagG => s.fields[1] = Rest[2 * n]
                  /\ \A k \in 1 .. Len(s.fields) :
                        (f # FlagG /\ ~(f = FlagGL /\ k = 3)) => Slashes(s.fields[k]) = 0

\* A GitLab pair with a "/" in the project's name, then a GitHub pair.
C29_Witness ==
    /\ args = << Prog, FlagGL, << "h", "/", "i", "/", "n", "/", "m" >>,
                 FlagGH, << "o", "/", "r" >> >>
    /\ startup # None
    /\ startup[1].tag = "Ok"
    /\ startup[1].val[1].fields = << << "h" >>, << "i" >>, << "n", "/", "m" >> >>
    /\ startup[1].val[2].fields = << << "o" >>, << "r" >> >>
    /\ pc = "loop"

Keys == { "git", "github", "codeberg", "gitlab" }
ArrayOf(k) ==
    IF ~config.parses THEN << >>
    ELSE Entries(IF k = "git" THEN config.git ELSE IF k = "github" THEN config.github
                 ELSE IF k = "codeberg" THEN config.codeberg ELSE config.gitlab)
KindOfKey(k) ==
    IF k = "git" THEN "Git" ELSE IF k = "github" THEN "GitHub"
    ELSE IF k = "codeberg" THEN "Forgejo" ELSE "GitLab"
DefinesNoSource == \A k \in Keys : ArrayOf(k) = << >>
\* Every entry is what its key asks for.
WellFormed ==
    /\ \A i \in 1 .. Len(ArrayOf("git")) : ArrayOf("git")[i].isString
    /\ \A k \in { "github", "codeberg" } : \A i \in 1 .. Len(ArrayOf(k)) :
          ArrayOf(k)[i].isString /\ Slashes(ArrayOf(k)[i].s) = 1
    /\ \A i \in 1 .. Len(ArrayOf("gitlab")) :
          /\ ArrayOf("gitlab")[i].hostname # None
          /\ ArrayOf("gitlab")[i].projectid # None
          /\ ArrayOf("gitlab")[i].projectname # None

\* C30: read from a configuration file, a configuration without a source
\* gives an error and the list handed to App::new is never empty; a
\* configuration with sources gives as many sources of each kind as its
\* array has entries.
C30_ConfiguredSources ==
    (pc # "main" /\ ConfigLine) =>
        /\ DefinesNoSource => (startup[1].tag = "Err" /\ pc = "usage" /\ NotStarted)
        /\ startup[1].tag = "Ok" => (startup[1].val # << >> /\ sources # << >>)
        /\ (WellFormed /\ ~DefinesNoSource) =>
              /\ startup[1].tag = "Ok"
              /\ \A k \in Keys :
                    Cardinality({ n \in 1 .. Len(startup[1].val) :
                                    startup[1].val[n].kind = KindOfKey(k) })
                       = Len(ArrayOf(k))

\* A file of empty arrays only has ended in usage().
C30_Witness ==
    /\ args = << Prog >>
    /\ config.parses
    /\ config.git = Some(<< >>) /\ config.github = Some(<< >>)
    /\ config.codeberg = Some(<< >>) /\ config.gitlab = None
    /\ startup = Some(Err("no sources defined in config file"))
    /\ pc = "usage"

\* A file with two GitLab tables and a path has started the application.
C30_WitnessSources ==
    /\ ConfigLine
    /\ WellFormed
    /\ Len(ArrayOf("gitlab")) = 2 /\ Len(ArrayOf("git")) = 1
    /\ pc = "loop"
    /\ Len(sources) = 3

\* The first tick of set g for the kind of the selected source, sent by
\* the timer as it starts, is handled and the fetch of the selected
\* source is awaited.
FirstTickFetches(g) ==
    /\ gen = g
    /\ pc = "fetch"
    /\ fetching = Some(selected)
    /\ cur.type = "Tick"
    /\ cur.from = << g, sources[selected + 1].kind >>
    /\ cur.seq = 1
    /\ cur.delay = "none"
\* The selection has changed and set g, spawned by the restart, has not
\* yet had the first tick of the selected source's kind received.
Changed(g) ==
    /\ gen = g
    /\ selected < Len(sources)
    /\ recvd[g][sources[selected + 1].kind] = 0
\* The run's bound on events is reached before that timer's first send.
Starved(g) ==
    /\ budget = 0
    /\ selected < Len(sources)
    /\ sub[g][sources[selected + 1].kind] \in {"none", "spawned"}
\* The fetch that ends is the one of the selected source.
FetchIsOfSelected ==
    [][(pc = "fetch" /\ pc' # "fetch") =>
          (fetching = Some(selected) /\ selected' = selected)]_vars

Decided == {"Buzzing", "Okayish", "Sad"}

\* C31: a decided Happiness is set only by the end of an awaited fetch of
\* the source at the selected index; the fetch is spawned for that index
\* and nothing changes the selection or restarts the scheduler while it is
\* awaited; every change of the selection makes Happiness Undecided. So a
\* decided Happiness is always of the selected source, fetched after the
\* latest change, whichever set the tick came from.
C31_NoStaleHappiness ==
    [][ /\ (happiness' \in Decided /\ (happiness' # happiness \/ pc = "fetch")) =>
              /\ pc = "fetch"
              /\ fetching = Some(selected)
              /\ selected' = selected /\ gen' = gen /\ sources' = sources
        /\ (selected' # selected \/ gen' # gen) => happiness' = "Undecided"
        /\ (pc # "fetch" /\ pc' = "fetch") =>
              (fetching' = Some(selected') /\ selected' = selected)
        /\ pc = "fetch" => (selected' = selected /\ gen' = gen) ]_vars

\* After a selection change Happiness is decided by a tick the old set had
\* queued: no tick of the new set has been received.
C31_Witness ==
    /\ happiness \in Decided
    /\ gen = 2
    /\ selected = 1
    /\ pc = "loop"
    /\ \A k \in Kinds : recvd[2][k] = 0

\* The last fetch that ended returned None.
SoftFailed == fetched = Some([ok |-> TRUE, at |-> None]) /\ pc # "handle"

\* C32: once a fetch has returned None, Happiness is Undecided and the
\* application goes on, until another fetch ends; the handler of the None
\* touches neither the intervals nor the timers; and every later tick of
\* the selected source's kind spawns the fetch of that source again.
C32_SoftFailureIsRetried ==
    /\ [](SoftFailed => (happiness = "Undecided" /\ running /\ pc # "done"))
    /\ [][ /\ intervals' = intervals
           /\ (pc = "handle" /\ pc' # "handle" /\ fetched[1].ok /\ fetched[1].at = None) =>
                 (UNCHANGED << schedVars, sources, selected, histVars >> /\ pc' = "loop")
           /\ (SoftFailed /\ Handles /\ cur.type = "Tick"
                 /\ cur.arg = sources[selected + 1].kind) =>
                 (pc' = "fetch" /\ fetching' = Some(selected)) ]_vars

\* The fetch before returned None and the third tick of the kind has its
\* fetch of the selected source awaited.
C32_Witness ==
    /\ SoftFailed
    /\ pc = "fetch"
    /\ fetching = Some(selected)
    /\ recvd[1][sources[selected + 1].kind] = 3
    /\ cur.delay = "period"

\* The answer came with a success status and its body was read as text.
BodyReceived(h) ==
    /\ h.send = "ok"
    /\ ~IsErrorStatus(h.status)
    /\ h.read = "ok"
    /\ h.utf8

\* C33: whatever the body of a successful answer holds, the hosted
\* fetcher returns: None when nothing matches, the maximum of the matches
\* when all of them are date-times; and once its result is handled the
\* application is still running.
C33_BodyNeverStopsTheApp ==
    (sources[1].kind # "Git" /\ pc # "fetch" /\ BodyReceived(http)) =>
        /\ fetched # None
        /\ fetched[1].ok
        /\ (http.stamps = << >>) => fetched[1].at = None
        /\ (http.stamps # << >> /\ \A i \in 1 .. Len(http.stamps) : http.stamps[i].fmt = "ok")
              => fetched[1].at = Some(MaxOf(TimesOf(http.stamps)))
        /\ Handled => (running /\ fatal = "")

\* C34: the source list never changes, and the selected index changes
\* only in the step that handles a pressed Up or Down key: no tick, no
\* animation tick, no end of a fetch, no Quit event and no other key
\* changes it.
C34_SelectionOnlyByNavigation ==
    [][ /\ sources' = sources
        /\ selected' # selected => (Handles /\ (NavKey("Down") \/ NavKey("Up")))
        /\ (Handles /\ cur.type \in {"Tick", "AnimationTick", "App"}) =>
              selected' = selected
        /\ (pc = "fetch" /\ pc' # "fetch") => selected' = selected ]_vars

\* At the second source, reached by a key, a Quit event has been handled.
C34_Witness ==
    /\ selected = 1
    /\ gen = 2
    /\ ~running
    /\ ctlRecvd = 1
    /\ fatal = ""

\* C35: running is true at first; it changes only from true to false, in
\* the step that handles a Quit event or in the one that handles a failed
\* fetch task; once it is false the controller receives no event, starts
\* no fetch and changes nothing of the application: it only leaves the
\* loop.
C35_RunningIsMonotone ==
    /\ running = TRUE
    /\ [][ /\ running' # running =>
                 /\ running /\ ~running'
                 /\ \/ Handles /\ cur.type = "App"
                    \/ pc = "fetch" /\ fatal' = "fetch task failed"
           /\ ~running =>
                 /\ ~running'
                 /\ UNCHANGED << happiness, selected, animation, sources >>
                 /\ UNCHANGED << recvd, ctlRecvd, gen, fetching >>
                 /\ pc \in {"loop", "done"} /\ pc' \in {"loop", "done"} ]_vars

\* A Quit event has stopped the loop with a tick and a key left unread.
C35_Witness ==
    /\ ~running
    /\ pc = "done"
    /\ outcome = "ok"
    /\ ctlRecvd = 1
    /\ Len(queue) = 2

QuitKey == cur.type = "Crossterm" /\ cur.key.isKey /\ IsQuitKey(cur.key)
\* A Quit event sent by a quit key is still in the channel.
QuitPending == ctlSent > ctlRecvd

C38_OnlyPressNavigates ==
    [][ (/\ Handles
         /\ cur.type = "Crossterm"
         /\ ~QuitKey
         /\ ~NavKey("Down")
         /\ ~NavKey("Up")) =>
            /\ UNCHANGED << selected, happiness, running, animation, sources >>
            /\ UNCHANGED << gen, actor, sub, queue, ctlSent >>
            /\ pc' = "loop" ]_vars

\* A key event that is neither a quit key nor a pressed navigation key has
\* been handled at a decided Happiness: no Quit was sent and the first
\* scheduler generation still runs.
C38_Witness ==
    /\ recvd[1]["key"] = 1
    /\ ctlSent = 0
    /\ gen = 1
    /\ pc = "loop"
    /\ happiness \in Decided
    /\ running

\* The three cases, each about to be handled at a decided Happiness.
C38_Handles(k) ==
    /\ pc = "dispatch"
    /\ cur.type = "Crossterm"
    /\ cur.key = k
    /\ happiness \in Decided
C38_WitnessReleased == C38_Handles(Key("Down", FALSE, "Release"))
C38_WitnessOtherKey == C38_Handles(Key("c", FALSE, "Press"))
C38_WitnessNoKey == C38_Handles(Resize)

AllNext == \A i \in 1 .. Len(inputs) : inputs[i] = "next"

\* C37: on a non-empty source list, after "next" then "previous", after
\* "previous" then "next", and after as many "next" inputs as there are
\* sources, selected is the index it started from.
C37_NextPreviousInverse ==
    sources # << >> =>
        /\ inputs \in { << "next", "previous" >>, << "previous", "next" >> } =>
              selected = start
        /\ (Len(inputs) = Len(sources) /\ AllNext) => selected = start

\* "previous" then "next" from index 0 of two sources, by way of the last
\* index; and a full round of "next" from the last index.
C37_Witness ==
    /\ Len(sources) = MaxSources
    /\ start = 0
    /\ inputs = << "previous", "next" >>
    /\ selected = 0
C37_WitnessRound ==
    /\ Len(sources) = MaxSources
    /\ start = MaxSources - 1
    /\ Len(inputs) = MaxSources
    /\ AllNext

\* C39: the animation counter stays within its width, and the step that
\* handles an animation tick adds one to it, or sets it to 0 at the
\* largest value of the width, and ends like any other: the loop goes on,
\* running stays, no error is returned.
C39_AnimationCounterWraps ==
    /\ [](animation \in 0 .. UsizeMax)
    /\ [][ (Handles /\ cur.type = "AnimationTick") =>
              /\ animation' = IF animation = UsizeMax THEN 0 ELSE animation + 1
              /\ pc' = "loop"
              /\ UNCHANGED << running, outcome, fatal, happiness, selected >> ]_vars

\* The counter has wrapped, and ticks on from 0.
C39_Witness ==
    /\ animation = 1
    /\ recvd[1]["anim"] = 3
    /\ pc = "loop"
    /\ running
    /\ outcome = "running"
====
